---- MODULE Spec2Model ----
(***************************************************************************)
(* A model of the ASSUME-BREAK stress-test pipeline (assume_break):        *)
(* the debate orchestration of graph.py (the LangGraph wiring and the      *)
(* MockAssumeBreakGraph loop), the four agent nodes (extractor, adversary, *)
(* proponent, judge) with their LLM and rule-based strategies, and the     *)
(* reality retrieval node.                                                 *)
(*                                                                         *)
(* The AgentState dict is the variable `state`, a function from key names  *)
(* to values; a node returns a partial dict (an "update") that the         *)
(* orchestrator merges into it.  The oracle (call_claude) is an input:     *)
(* each capability call draws one OracleOutcome.                           *)
(***************************************************************************)
EXTENDS Integers, Sequences, FiniteSets, TLC

VARIABLES
    state,       \* the AgentState dict threaded through the nodes
    api_key,     \* settings.anthropic_api_key is non-empty
    langgraph,   \* the langgraph package can be imported
    engine,      \* which graph object executes: "none", "langgraph", "mock"
    pc,          \* next node to execute, or "start", "fault", "done", "returned"
    iter,        \* MockAssumeBreakGraph: index of the current loop iteration
    steps,       \* langgraph: node executions so far (counted against recursion_limit)
    node,        \* the node or function executed by the last step
    strategy,    \* how the last node produced its result
    oracle,      \* what call_claude did in the last node
    reply,       \* the reply call_claude returned in the last node (<<>> if none)
    warning,     \* the warnings.warn emitted by the last step ("" if none)
    route,       \* the last routing decision ("" before any)
    result,      \* the StressTestResult returned by stress_test_plan
    retrieval,   \* the last direct call of the retrieval engine and what it returned
    llm          \* what a direct call of call_claude did (NoCall before any)

vars == <<state, api_key, langgraph, engine, pc, iter, steps, node, strategy,
          oracle, reply, warning, route, result, llm, retrieval>>

--------------------------------------------------------------------------
(* Bounds of the model *)

\* largest max_revisions a run is started with
MaxRev == 2

\* largest max_retries call_claude is called with directly
MaxRetries == 3

\* largest top_k a direct call of retrieve_relevant_facts is given
MaxTopK == 12

--------------------------------------------------------------------------
(* state.py: enums *)

PlanStatus == {"DRAFT", "UNDER_REVIEW", "BROKEN", "VALIDATED", "NEEDS_REVISION"}

CritiqueSeverity == {"FATAL", "MAJOR", "MINOR", "NONE"}

\* dict.get(key, default)
Get(d, key, default) == IF key \in DOMAIN d THEN d[key] ELSE default

\* dict.update(upd): keys of upd overwrite or are added
Update(d, upd) ==
    [k \in DOMAIN d \cup DOMAIN upd |-> IF k \in DOMAIN upd THEN upd[k] ELSE d[k]]

\* dict.setdefault(key, default)
SetDefault(d, key, default) ==
    IF key \in DOMAIN d THEN d ELSE Update(d, [x \in {key} |-> default])

--------------------------------------------------------------------------
(* Inputs: business plans *)

\* The business plans a run is started on.
Documents == {"diesel transport", "small shop", "copper mining", "turnover tax"}

\* The keywords of the extractor's rules that occur (as substrings) in the
\* lowercased plan:
\*   "We plan to start a diesel transport business in Lusaka."
\*   "A small shop."
\*   "We plan to start a copper mining operation in North-Western Province."
\*   "We expect ZMW 2M revenue with 10% profit margins. We will pay turnover tax."
PlanWords(plan) ==
    CASE plan = "diesel transport" -> {"diesel", "transport"}
      [] plan = ""                 -> {}
      [] plan = "small shop"       -> {}
      [] plan = "copper mining"    -> {"copper", "mining", "western", "province"}
      [] plan = "turnover tax"     -> {"zmw", "revenue", "profit", "margin",
                                       "turnover", "tax", "turnover tax"}

--------------------------------------------------------------------------
(* agents/extractor.py *)

\* The assumption lines the rule-based extractor can emit, in rule order,
\* each with the keywords that trigger it.
ExtractorRules == <<
    [words |-> {"revenue", "income", "turnover", "sales", "zmw"},   line |-> "Financial: revenue projections"],
    [words |-> {"loan", "bank", "financing", "credit", "borrow"},   line |-> "Financial: bank financing"],
    [words |-> {"diesel", "fuel", "petrol", "energy"},              line |-> "Operational: fuel costs"],
    [words |-> {"transport", "delivery", "logistics", "fleet", "road"},
                                                                    line |-> "Operational: transport routes"],
    [words |-> {"tax", "vat", "turnover tax"},                      line |-> "Regulatory: tax regime"],
    [words |-> {"farm", "agriculture", "crop", "harvest", "maize"}, line |-> "Market: commodity prices"],
    [words |-> {"mine", "mining", "copper", "mineral"},             line |-> "Regulatory: mining licenses"],
    [words |-> {"employee", "staff", "worker", "hire", "salary"},   line |-> "Operational: labor costs"],
    [words |-> {"import", "export", "customs"},                     line |-> "Regulatory: import duties in the financial model"],
    [words |-> {"app", "digital", "online", "mobile", "software"},  line |-> "Regulatory: digital licensing"],
    [words |-> {"property", "land", "building", "premises"},        line |-> "Financial: property costs"],
    [words |-> {"western", "northern", "rural", "province"},        line |-> "Environmental: geographic conditions"],
    [words |-> {"margin", "profit", "net"},                         line |-> "Financial: profit margins"] >>

\* The two generic assumptions emitted when no rule matches.
GenericAssumptions == << "Financial: financial projections realistic",
                         "Regulatory: licenses identified" >>

\* Well-formed assumption lines an LLM reply may hold (the examples of
\* EXTRACTOR_SYSTEM_PROMPT).
LLMLines == { "Financial: 8% net profit margins",
              "Operational: diesel fuel below K22",
              "Regulatory: qualifies for Turnover Tax" }

\* A reply line that is no assumption line.
JunkLine == "Here are the assumptions:"

\* re.match(r"\[(?:Financial|...)\]\s*ASSUMPTION:", line)
IsAssumptionLine(line) == line \in LLMLines

\* map a sequence of rules to their lines
RuleLines(rules) == [i \in 1..Len(rules) |-> rules[i].line]

\* extract_assumptions_rule_based without the two generic assumptions
extract_assumptions_rule_based_no_generic(plan) ==
    LET Hit(r) == r.words \cap PlanWords(plan) # {}
    IN  RuleLines(SelectSeq(ExtractorRules, Hit))

extract_assumptions_rule_based(plan) ==
    LET Hit(r) == r.words \cap PlanWords(plan) # {}
        assumptions == RuleLines(SelectSeq(ExtractorRules, Hit))
    IN  IF assumptions = <<>> THEN GenericAssumptions ELSE assumptions

--------------------------------------------------------------------------
(* agents/llm.py: the oracle as seen by a node *)

\* What one call_claude call does: raise NoAPIKeyError, raise another error
\* (retries exhausted), or return a reply text.  `reply` is the reply as the
\* node's parser sees it (lines, blocks or a verdict text).
\* `none` is the empty reply of the node's reply type (<<>> or "").
NoKey(none) == [kind |-> "no_key", reply |-> none]

APIError(none) == [kind |-> "error", reply |-> none]

Reply(r) == [kind |-> "reply", reply |-> r]

\* what one client.messages.create request does: return a message, raise
\* anthropic.RateLimitError, raise another anthropic.APIError, or raise an
\* exception that is no APIError
Responses == {"ok", "rate_limit", "api_error", "other"}

\* call_claude(..., max_retries: int = 3)
max_retries_default == 3

\* what a call of call_claude did: the exception raised ("" if it returned),
\* the number of requests made and the time.sleep waits, in order
CallRecord(kind, raised, invocations, sleeps) ==
    [kind |-> kind, raised |-> raised, invocations |-> invocations, sleeps |-> sleeps]

\* no call was made
NoCall == CallRecord("", "", 0, <<>>)

\* no direct call of the retrieval engine was made
NoRetrieval == [op |-> ""]

RECURSIVE RetryLoop_raises_at_once(_, _, _, _)
\* RetryLoop re-raising an APIError at once, whatever the attempt
RetryLoop_raises_at_once(responses, max_retries, attempt, sleeps) ==
    IF attempt >= max_retries
    THEN CallRecord("error", "RateLimitError", attempt, sleeps)
    ELSE LET r == responses[attempt + 1]
         IN  IF r = "ok" THEN CallRecord("reply", "", attempt + 1, sleeps)
             ELSE IF r = "rate_limit"
             THEN RetryLoop_raises_at_once(responses, max_retries, attempt + 1,
                                           Append(sleeps, 2 ^ (attempt + 1)))
             ELSE IF r = "api_error"
             THEN CallRecord("error", "APIError", attempt + 1, sleeps)
             ELSE CallRecord("error", "Exception", attempt + 1, sleeps)

RECURSIVE RetryLoop_guards_rate_limit(_, _, _, _)
\* RetryLoop treating RateLimitError like any APIError: the same wait, and
\* re-raised at once on the last attempt
RetryLoop_guards_rate_limit(responses, max_retries, attempt, sleeps) ==
    IF attempt >= max_retries
    THEN CallRecord("error", "RateLimitError", attempt, sleeps)
    ELSE LET r == responses[attempt + 1]
         IN  IF r = "ok" THEN CallRecord("reply", "", attempt + 1, sleeps)
             ELSE IF r \in {"rate_limit", "api_error"}
             THEN IF attempt < max_retries - 1
                  THEN RetryLoop_guards_rate_limit(responses, max_retries, attempt + 1,
                                                   Append(sleeps, 2 ^ attempt))
                  ELSE CallRecord("error",
                                  IF r = "rate_limit" THEN "RateLimitError" ELSE "APIError",
                                  attempt + 1, sleeps)
             ELSE CallRecord("error", "Exception", attempt + 1, sleeps)

RECURSIVE RetryLoop(_, _, _, _)
\* `for attempt in range(max_retries)` from iteration `attempt` on, then
\* `raise last_error`; responses[attempt + 1] is what the request of that
\* iteration does
RetryLoop(responses, max_retries, attempt, sleeps) ==
    IF attempt >= max_retries
    THEN CallRecord("error", "RateLimitError", attempt, sleeps)
    ELSE LET r == responses[attempt + 1]
         IN  IF r = "ok" THEN CallRecord("reply", "", attempt + 1, sleeps)
             ELSE IF r = "rate_limit"
             THEN RetryLoop(responses, max_retries, attempt + 1,
                            Append(sleeps, 2 ^ (attempt + 1)))
             ELSE IF r = "api_error"
             THEN IF attempt < max_retries - 1
                  THEN RetryLoop(responses, max_retries, attempt + 1,
                                 Append(sleeps, 2 ^ attempt))
                  ELSE CallRecord("error", "APIError", attempt + 1, sleeps)
             ELSE CallRecord("error", "Exception", attempt + 1, sleeps)

\* call_claude: NoAPIKeyError before any request when no key is set, else
\* the retry loop
call_claude_attempts(key, responses, max_retries) ==
    IF ~key THEN CallRecord("no_key", "NoAPIKeyError", 0, <<>>)
    ELSE RetryLoop(responses, max_retries, 0, <<>>)

\* how a call with the default max_retries can end, with and without a key
KindsWithKey ==
    { call_claude_attempts(TRUE, rs, max_retries_default).kind :
        rs \in [1..max_retries_default -> Responses] }

KindsWithoutKey ==
    { call_claude_attempts(FALSE, rs, max_retries_default).kind :
        rs \in [1..max_retries_default -> Responses] }

\* call_claude as a node sees it: the ways the call can end, with the
\* replies it can return
call_claude(key, replies, none) ==
    LET kinds == IF key THEN KindsWithKey ELSE KindsWithoutKey
    IN  {o \in {NoKey(none), APIError(none)} : o.kind \in kinds}
          \cup {Reply(r) : r \in {x \in replies : "reply" \in kinds}}

\* What a node reports besides its update: the strategy that produced it,
\* what the oracle did and the warning emitted.
Outcome(upd, strat, o, warn) ==
    [upd |-> upd, strategy |-> strat, oracle |-> o.kind, reply |-> o.reply, warning |-> warn]

\* no call_claude call was made
NotCalled(none) == [kind |-> "not called", reply |-> none]

\* FallbackWarning warning about NoAPIKeyError as well
FallbackWarning_warns_no_key(o, name) == IF o.kind \in {"error", "no_key"} THEN name ELSE ""

\* the except clauses of every node: NoAPIKeyError passes silently, any
\* other exception warns; a reply that parses to nothing raises nothing
FallbackWarning(o, name) == IF o.kind = "error" THEN name ELSE ""

--------------------------------------------------------------------------
(* agents/extractor.py: the node *)

\* Replies to the extraction prompt, as lines.
ExtractReplies == { <<JunkLine>>,
                    <<JunkLine, "Regulatory: qualifies for Turnover Tax">>,
                    <<"Financial: 8% net profit margins", "Operational: diesel fuel below K22">> }

extract_assumptions(st, o) ==
    LET plan == Get(st, "business_plan", "")
        assumptions == IF o.kind = "reply"
                       THEN SelectSeq(o.reply, IsAssumptionLine) ELSE <<>>
    IN  IF assumptions # <<>>
        THEN Outcome([assumption_tree |-> assumptions, plan_status |-> "UNDER_REVIEW"],
                     "primary", o, "")
        ELSE Outcome([assumption_tree |-> extract_assumptions_rule_based(plan),
                      plan_status |-> "UNDER_REVIEW"],
                     "fallback", o, FallbackWarning(o, "LLM extraction failed"))

--------------------------------------------------------------------------
(* reality/engine.py: the retrieval node *)

\* database.py: the facts of the corpus in corpus order, with the fields the
\* scoring reads. A ranked fact is named by its index in the Python list (the
\* first fact is 0).
ZAMBIAN_REALITY_DATABASE ==
    << [category |-> "TAX",
        keywords |-> <<"turnover", "tax", "tot", "revenue",
                     "small business", "5%", "zmw">>],
       [category |-> "TAX",
        keywords |-> <<"corporate", "income", "tax", "cit", "30%",
                     "manufacturing", "farming">>],
       [category |-> "TAX",
        keywords |-> <<"rental", "income", "tax", "property", "16%",
                     "landlord">>],
       [category |-> "TAX",
        keywords |-> <<"property", "transfer", "tax", "ptt", "8%", "land",
                     "shares", "mining rights">>],
       [category |-> "TAX",
        keywords |-> <<"withholding", "tax", "dividend", "non-resident",
                     "20%", "15%">>],
       [category |-> "TAX",
        keywords |-> <<"vat", "16%", "value added", "tax", "zero-rated",
                     "registration", "threshold">>],
       [category |-> "ENERGY",
        keywords |-> <<"fuel", "petrol", "diesel", "price", "erb",
                     "energy", "pump">>],
       [category |-> "ENERGY",
        keywords |-> <<"fuel", "volatility", "price", "fluctuation",
                     "hedging", "diesel", "petrol">>],
       [category |-> "ENERGY",
        keywords |-> <<"electricity", "load-shedding", "power", "zesco",
                     "generator", "solar", "kariba">>],
       [category |-> "ENERGY",
        keywords |-> <<"fuel", "shock", "price", "risk", "crude",
                     "kwacha", "depreciation">>],
       [category |-> "FINANCE",
        keywords |-> <<"interest", "rate", "boz", "policy", "monetary",
                     "bank of zambia">>],
       [category |-> "FINANCE",
        keywords |-> <<"lending", "rate", "loan", "bank", "sme",
                     "collateral", "interest", "financing">>],
       [category |-> "FINANCE",
        keywords |-> <<"inflation", "cpi", "food", "prices", "cost",
                     "zamstat">>],
       [category |-> "FINANCE",
        keywords |-> <<"exchange", "rate", "kwacha", "usd", "dollar",
                     "forex", "currency", "depreciation">>],
       [category |-> "LOGISTICS",
        keywords |-> <<"flood", "rain", "la nina", "weather", "western",
                     "southern", "logistics", "road">>],
       [category |-> "LOGISTICS",
        keywords |-> <<"road", "rural", "feeder", "unpaved", "rainy",
                     "season", "4x4", "western", "northern">>],
       [category |-> "LOGISTICS",
        keywords |-> <<"lusaka", "ndola", "t3", "dual carriageway",
                     "road", "construction", "copperbelt">>],
       [category |-> "LOGISTICS",
        keywords |-> <<"cold", "chain", "storage", "fresh", "produce",
                     "perishable", "post-harvest", "loss">>],
       [category |-> "MINING",
        keywords |-> <<"mining", "royalty", "copper", "cobalt", "gold",
                     "mineral", "tax">>],
       [category |-> "MINING",
        keywords |-> <<"export", "duty", "copper", "concentrate",
                     "smelting", "mining", "processing">>],
       [category |-> "MINING",
        keywords |-> <<"mining", "license", "eia", "zema", "permit",
                     "application", "timeline">>],
       [category |-> "MINING",
        keywords |-> <<"mining", "tax", "corporate", "profit", "variable",
                     "cit">>],
       [category |-> "AGRICULTURE",
        keywords |-> <<"maize", "fra", "food reserve", "price",
                     "agriculture", "crop", "floor">>],
       [category |-> "AGRICULTURE",
        keywords |-> <<"fisp", "subsidy", "fertilizer", "seed",
                     "agriculture", "smallholder", "input">>],
       [category |-> "AGRICULTURE",
        keywords |-> <<"maize", "export", "ban", "restriction",
                     "agriculture", "grain", "drought">>],
       [category |-> "AGRICULTURE",
        keywords |-> <<"land", "lease", "agriculture", "farm", "hectare",
                     "mkushi", "chisamba">>],
       [category |-> "LABOR",
        keywords |-> <<"minimum", "wage", "salary", "labour", "labor",
                     "worker", "pay">>],
       [category |-> "LABOR",
        keywords |-> <<"napsa", "pension", "contribution", "employer",
                     "social security", "payroll">>],
       [category |-> "LABOR",
        keywords |-> <<"skills", "levy", "teveta", "payroll", "training",
                     "development">>],
       [category |-> "LABOR",
        keywords |-> <<"workers", "compensation", "insurance", "injury",
                     "safety", "payroll">>],
       [category |-> "IMPORT_EXPORT",
        keywords |-> <<"comesa", "tariff", "import", "export",
                     "preferential", "trade", "duty">>],
       [category |-> "IMPORT_EXPORT",
        keywords |-> <<"customs", "duty", "import", "tariff", "rate",
                     "goods">>],
       [category |-> "IMPORT_EXPORT",
        keywords |-> <<"vat", "import", "customs", "cif", "tax">>],
       [category |-> "IMPORT_EXPORT",
        keywords |-> <<"idf", "import", "declaration", "fee", "cif",
                     "customs", "cost">>],
       [category |-> "DIGITAL",
        keywords |-> <<"zicta", "license", "telecom", "digital",
                     "communication", "vas">>],
       [category |-> "DIGITAL",
        keywords |-> <<"data", "protection", "privacy", "gdpr",
                     "personal", "digital", "compliance">>],
       [category |-> "DIGITAL",
        keywords |-> <<"mobile", "money", "payment", "digital", "fintech",
                     "transaction", "limit">>],
       [category |-> "DIGITAL",
        keywords |-> <<"internet", "broadband", "mobile", "data",
                     "connectivity", "rural", "urban">>],
       [category |-> "REGISTRATION",
        keywords |-> <<"pacra", "registration", "company", "business",
                     "incorporate", "annual return">>],
       [category |-> "REGISTRATION",
        keywords |-> <<"zema", "eia", "environment", "impact",
                     "assessment", "license", "permit">>],
       [category |-> "REGISTRATION",
        keywords |-> <<"health", "hra", "food", "safety", "certification",
                     "restaurant", "pharmacy">>],
       [category |-> "REGISTRATION",
        keywords |-> <<"tourism", "hotel", "hospitality", "zntb",
                     "license", "lodge", "travel">>] >>

\* tests/test_reality_engine.py, TestScoreFact: the facts the tests build
TestFacts ==
    { [category |-> "TAX", keywords |-> <<"turnover", "tax">>],
      [category |-> "MINING", keywords |-> <<"royalty">>],
      [category |-> "TAX", keywords |-> <<"completely", "unrelated">>] }

Categories ==
    {"TAX", "ENERGY", "FINANCE", "LOGISTICS", "MINING", "AGRICULTURE",
    "LABOR", "IMPORT_EXPORT", "DIGITAL", "REGISTRATION"}

CATEGORY_INDICATORS(category) ==
    CASE category = "TAX" ->
           {"tax", "revenue", "turnover", "vat", "income tax",
           "withholding"}
      [] category = "ENERGY" ->
           {"fuel", "diesel", "petrol", "electricity", "power", "solar",
           "energy", "generator"}
      [] category = "FINANCE" ->
           {"loan", "bank", "interest", "financing", "credit", "lending",
           "inflation", "exchange rate", "forex", "kwacha"}
      [] category = "LOGISTICS" ->
           {"transport", "road", "delivery", "logistics", "fleet",
           "shipping", "cold chain", "warehouse"}
      [] category = "MINING" ->
           {"mining", "mine", "copper", "cobalt", "mineral", "smelting",
           "ore", "drill"}
      [] category = "AGRICULTURE" ->
           {"farm", "agriculture", "maize", "crop", "harvest",
           "fertilizer", "seed", "livestock", "land"}
      [] category = "LABOR" ->
           {"employee", "worker", "salary", "wage", "staff", "hire",
           "payroll", "labour", "labor", "napsa"}
      [] category = "IMPORT_EXPORT" ->
           {"import", "export", "customs", "tariff", "comesa", "trade",
           "shipping"}
      [] category = "DIGITAL" ->
           {"digital", "mobile", "app", "software", "internet", "telecom",
           "fintech", "data", "online", "e-commerce"}
      [] category = "REGISTRATION" ->
           {"register", "license", "permit", "pacra", "zema",
           "certification", "compliance"}

\* Weights for scoring, in hundredths; the similarity threshold in
\* ten-thousandths.
EXACT_KEYWORD_WEIGHT == 300
FUZZY_KEYWORD_WEIGHT == 150
CATEGORY_BOOST_WEIGHT == 200
FUZZY_THRESHOLD == 6500
TOP_K == 10

\* The texts retrieval is called on, each named by a few of its words: the
\* plans of Documents and
\*   ""
\*   "Small busines logistic"
\*   "royalty calculation"
\*   "mining copper cobalt"
PlanTexts ==
    Documents \cup {"", "small busines", "royalty calculation", "mining copper cobalt"}

\* re.findall(r"[a-z0-9]+(?:'[a-z]+)?", text.lower())
_tokenize(text) ==
    CASE text = "" ->
           <<>>
      [] text = "small shop" ->
           <<"a", "small", "shop">>
      [] text = "diesel transport" ->
           <<"we", "plan", "to", "start", "a", "diesel", "transport",
           "business", "in", "lusaka">>
      [] text = "copper mining" ->
           <<"we", "plan", "to", "start", "a", "copper", "mining",
           "operation", "in", "north", "western", "province">>
      [] text = "turnover tax" ->
           <<"we", "expect", "zmw", "2m", "revenue", "with", "10",
           "profit", "margins", "we", "will", "pay", "turnover", "tax">>
      [] text = "small busines" ->
           <<"small", "busines", "logistic">>
      [] text = "royalty calculation" ->
           <<"royalty", "calculation">>
      [] text = "mining copper cobalt" ->
           <<"mining", "copper", "cobalt">>

\* the indicators of CATEGORY_INDICATORS for which `indicator in plan_lower`
IndicatorsIn(plan_lower) ==
    CASE plan_lower = "" -> {}
      [] plan_lower = "small shop" -> {}
      [] plan_lower = "diesel transport" -> {"diesel", "transport"}
      [] plan_lower = "copper mining" -> {"copper", "mining"}
      [] plan_lower = "turnover tax" -> {"revenue", "tax", "turnover"}
      [] plan_lower = "small busines" -> {}
      [] plan_lower = "royalty calculation" -> {}
      [] plan_lower = "mining copper cobalt" -> {"cobalt", "copper", "mining"}

_detect_categories(plan_text) ==
    { category \in Categories :
        CATEGORY_INDICATORS(category) \cap IndicatorsIn(plan_text) # {} }

\* SequenceMatcher(None, a, b).ratio() in ten-thousandths (rounded down), for
\* a keyword a and b a token or a joined text (named as in PlanTexts), where
\* the two differ and the ratio is at least 0.5 for a text and 0.6 for a token.
SequenceMatcherRatios ==
    <<"application", "calculation">> :> 7272
    @@ <<"application", "operation">> :> 6000
    @@ <<"application", "royalty calculation">> :> 5333
    @@ <<"business", "busines">> :> 9333
    @@ <<"business", "small busines">> :> 5333
    @@ <<"certification", "operation">> :> 6363
    @@ <<"cobalt", "royalty">> :> 6153
    @@ <<"cold", "cobalt">> :> 6000
    @@ <<"company", "pay">> :> 6000
    @@ <<"compensation", "operation">> :> 7619
    @@ <<"copperbelt", "cobalt">> :> 6250
    @@ <<"copperbelt", "copper">> :> 7500
    @@ <<"copperbelt", "mining copper cobalt">> :> 6000
    @@ <<"cost", "cobalt">> :> 6000
    @@ <<"crop", "copper">> :> 6000
    @@ <<"declaration", "calculation">> :> 6363
    @@ <<"declaration", "operation">> :> 7000
    @@ <<"depreciation", "operation">> :> 6666
    @@ <<"export", "expect">> :> 6666
    @@ <<"farming", "mining">> :> 6153
    @@ <<"financing", "mining">> :> 6666
    @@ <<"fluctuation", "calculation">> :> 6363
    @@ <<"incorporate", "mining copper cobalt">> :> 5161
    @@ <<"inflation", "calculation">> :> 6000
    @@ <<"land", "plan">> :> 7500
    @@ <<"lending", "mining">> :> 6153
    @@ <<"license", "diesel">> :> 6153
    @@ <<"loan", "plan">> :> 7500
    @@ <<"logistics", "logistic">> :> 9411
    @@ <<"logistics", "small busines">> :> 5161
    @@ <<"mineral", "mining copper cobalt">> :> 5185
    @@ <<"minimum", "mining">> :> 6153
    @@ <<"mining rights", "mining">> :> 6315
    @@ <<"mining rights", "mining copper cobalt">> :> 5454
    @@ <<"northern", "north">> :> 7692
    @@ <<"payment", "pay">> :> 6000
    @@ <<"payroll", "pay">> :> 6000
    @@ <<"pension", "operation">> :> 6250
    @@ <<"permit", "profit">> :> 6666
    @@ <<"price", "province">> :> 7692
    @@ <<"prices", "province">> :> 7142
    @@ <<"privacy", "pay">> :> 6000
    @@ <<"produce", "province">> :> 6666
    @@ <<"protection", "operation">> :> 6315
    @@ <<"protection", "royalty calculation">> :> 5517
    @@ <<"rain", "in">> :> 6666
    @@ <<"rain", "operation">> :> 6153
    @@ <<"registration", "operation">> :> 6666
    @@ <<"restaurant", "start">> :> 6666
    @@ <<"royalty", "cobalt">> :> 6153
    @@ <<"royalty", "royalty calculation">> :> 5384
    @@ <<"shock", "shop">> :> 6666
    @@ <<"skills", "will">> :> 6000
    @@ <<"small business", "busines">> :> 6666
    @@ <<"small business", "business">> :> 7272
    @@ <<"small business", "small busines">> :> 7777
    @@ <<"small business", "small shop">> :> 5384
    @@ <<"smallholder", "small">> :> 6250
    @@ <<"smallholder", "small shop">> :> 6086
    @@ <<"solar", "start">> :> 6000
    @@ <<"southern", "western">> :> 6666
    @@ <<"tot", "to">> :> 8000
    @@ <<"training", "mining">> :> 7142
    @@ <<"transaction", "operation">> :> 6000
    @@ <<"transaction", "transport">> :> 6000
    @@ <<"transfer", "transport">> :> 7058
    @@ <<"transfer", "turnover">> :> 6250
    @@ <<"wage", "we">> :> 6666
    @@ <<"weather", "western">> :> 7142
    @@ <<"zamstat", "start">> :> 6666

\* SequenceMatcher(None, a, b).ratio(); a pair that is not listed has a ratio
\* below every threshold of the scoring and is given as 0.
ratio(a, b) ==
    IF a = b THEN 10000
    ELSE IF <<a, b>> \in DOMAIN SequenceMatcherRatios THEN SequenceMatcherRatios[<<a, b>>]
    ELSE 0

\* the keywords and tokens with len(s) < 4
ShorterThan4 ==
    {"10", "15%", "16%", "20%", "2m", "30%", "4x4", "5%", "8%", "a",
    "ban", "boz", "cif", "cit", "cpi", "eia", "erb", "fee", "fra", "hra",
    "idf", "in", "pay", "ptt", "sme", "t3", "tax", "to", "tot", "usd",
    "vas", "vat", "we", "zmw"}

\* " ".join(plan_tokens), named by the text the tokens come from
plan_text_joined(plan_tokens) ==
    CHOOSE text \in PlanTexts : _tokenize(text) = plan_tokens

\* first loop of _score_fact, for one keyword
ExactMatch(keyword_lower, plan_tokens) ==
    IF \E i \in 1..Len(plan_tokens) : plan_tokens[i] = keyword_lower
    THEN EXACT_KEYWORD_WEIGHT ELSE 0

\* FuzzyMatch without the skip of a keyword that matched exactly
FuzzyMatch_counts_exact_too(keyword_lower, plan_tokens) ==
    IF ratio(keyword_lower, plan_text_joined(plan_tokens)) >= FUZZY_THRESHOLD
    THEN FUZZY_KEYWORD_WEIGHT
    ELSE IF \E i \in 1..Len(plan_tokens) :
                /\ plan_tokens[i] \notin ShorterThan4
                /\ keyword_lower \notin ShorterThan4
                /\ ratio(keyword_lower, plan_tokens[i]) >= 7500
    THEN FUZZY_KEYWORD_WEIGHT \div 2
    ELSE 0

\* second loop of _score_fact, for one keyword
FuzzyMatch(keyword_lower, plan_tokens) ==
    IF \E i \in 1..Len(plan_tokens) : plan_tokens[i] = keyword_lower
    THEN 0
    ELSE IF ratio(keyword_lower, plan_text_joined(plan_tokens)) >= FUZZY_THRESHOLD
    THEN FUZZY_KEYWORD_WEIGHT
    ELSE IF \E i \in 1..Len(plan_tokens) :
                /\ plan_tokens[i] \notin ShorterThan4
                /\ keyword_lower \notin ShorterThan4
                /\ ratio(keyword_lower, plan_tokens[i]) >= 7500
    THEN FUZZY_KEYWORD_WEIGHT \div 2
    ELSE 0

\* the first loop over the first n keywords
RECURSIVE ExactMatches(_, _, _)
ExactMatches(keywords, plan_tokens, n) ==
    IF n = 0 THEN 0
    ELSE ExactMatches(keywords, plan_tokens, n - 1) + ExactMatch(keywords[n], plan_tokens)

\* the second loop over the first n keywords
RECURSIVE FuzzyMatches(_, _, _)
FuzzyMatches(keywords, plan_tokens, n) ==
    IF n = 0 THEN 0
    ELSE FuzzyMatches(keywords, plan_tokens, n - 1) + FuzzyMatch(keywords[n], plan_tokens)

CategoryBoost_per_keyword(fact, detected_categories) ==
    IF fact.category \in detected_categories
    THEN CATEGORY_BOOST_WEIGHT * Len(fact.keywords) ELSE 0

CategoryBoost(fact, detected_categories) ==
    IF fact.category \in detected_categories THEN CATEGORY_BOOST_WEIGHT ELSE 0

_score_fact(fact, plan_tokens, detected_categories) ==
    ExactMatches(fact.keywords, plan_tokens, Len(fact.keywords))
    + FuzzyMatches(fact.keywords, plan_tokens, Len(fact.keywords))
    + CategoryBoost(fact, detected_categories)

\* the loop of retrieve_relevant_facts over the database
Scored(plan_tokens, detected_categories) ==
    LET all == [i \in 1..Len(ZAMBIAN_REALITY_DATABASE) |->
                  [fact |-> i - 1,
                   score |-> _score_fact(ZAMBIAN_REALITY_DATABASE[i], plan_tokens,
                                         detected_categories)]]
        Positive(r) == r.score > 0
    IN  SelectSeq(all, Positive)

StableInsert_ties_first(sorted, e) ==
    LET n == Cardinality({i \in 1..Len(sorted) : sorted[i].score > e.score})
    IN  SubSeq(sorted, 1, n) \o <<e>> \o SubSeq(sorted, n + 1, Len(sorted))

\* e takes its place behind the entries that score at least as much
StableInsert(sorted, e) ==
    LET n == Cardinality({i \in 1..Len(sorted) : sorted[i].score >= e.score})
    IN  SubSeq(sorted, 1, n) \o <<e>> \o SubSeq(sorted, n + 1, Len(sorted))

\* scored.sort(key=lambda x: x[1], reverse=True): list.sort is stable
RECURSIVE SortByScore(_, _)
SortByScore(scored, n) ==
    IF n = 0 THEN <<>> ELSE StableInsert(SortByScore(scored, n - 1), scored[n])

\* scored[:top_k]
Slice(scored, top_k) ==
    LET stop == IF top_k >= 0 THEN top_k ELSE Len(scored) + top_k
    IN  SubSeq(scored, 1, IF stop > Len(scored) THEN Len(scored) ELSE stop)

\* The ranked facts with their scores in hundredths.
retrieve_relevant_facts(plan_text, top_k) ==
    LET scored == Scored(_tokenize(plan_text), _detect_categories(plan_text))
    IN  Slice(SortByScore(scored, Len(scored)), top_k)

\* The facts of the database whose text holds "K25" and "turnover".
FactsMentioning(word) ==
    CASE word = "k25" -> {6}
      [] word = "turnover" -> {0, 1, 5}

fetch_reality_no_sentinel(st) ==
    LET results == retrieve_relevant_facts(Get(st, "business_plan", ""), TOP_K)
    IN  [reality_context |->
            [sentinel |-> FALSE,
             lines |-> [i \in 1..Len(results) |->
                          [index |-> i, fact |-> results[i].fact,
                           score |-> results[i].score]]],
         reality_citations |->
            [i \in 1..Len(results) |-> [index |-> i, fact |-> results[i].fact]]]

fetch_reality(st) ==
    LET plan == Get(st, "business_plan", "")
        results == retrieve_relevant_facts(plan, TOP_K)
    IN  IF results = <<>>
        THEN [reality_context |-> [sentinel |-> TRUE, lines |-> <<>>],
              reality_citations |-> << [index |-> 0, fact |-> -1] >>]
        ELSE [reality_context |->
                 [sentinel |-> FALSE,
                  lines |-> [i \in 1..Len(results) |->
                               [index |-> i, fact |-> results[i].fact,
                                score |-> results[i].score]]],
              reality_citations |->
                 [i \in 1..Len(results) |-> [index |-> i, fact |-> results[i].fact]]]

\* `word in reality.lower()`
ContextMentions(reality, word) ==
    \E i \in 1..Len(reality.lines) : reality.lines[i].fact \in FactsMentioning(word)

--------------------------------------------------------------------------
(* agents/adversary.py *)

\* The substrings tested by the rule-based adversary that occur in the
\* lowercased assumption line ("[Financial] ..." holds "financ").
AssumptionWords(a) ==
    CASE a = "Financial: revenue projections"                   -> {"tax", "financ"}
      [] a = "Financial: bank financing"                        -> {"financ", "bank"}
      [] a = "Operational: fuel costs"                          -> {"fuel"}
      [] a = "Operational: transport routes"                    -> {"transport"}
      [] a = "Regulatory: tax regime"                           -> {"tax"}
      [] a = "Regulatory: import duties in the financial model" -> {"financ"}
      [] a = "Financial: property costs"                        -> {"financ"}
      [] a = "Financial: profit margins"                        -> {"financ", "margin", "profit"}
      [] a = "Financial: financial projections realistic"       -> {"financ"}
      [] a = "Financial: 8% net profit margins"                 -> {"financ", "margin", "profit"}
      [] a = "Operational: diesel fuel below K22"               -> {"fuel"}
      [] a = "Regulatory: qualifies for Turnover Tax"           -> {"tax"}
      [] OTHER                                                  -> {}

\* the if/elif chain of the rule-based adversary for one assumption
RuleSeverity(a, reality) ==
    LET w == AssumptionWords(a)
    IN  IF "fuel" \in w /\ ContextMentions(reality, "k25") THEN "MAJOR"
        ELSE IF "tax" \in w /\ ContextMentions(reality, "turnover") THEN "MAJOR"
        ELSE IF w \cap {"transport", "logistics", "road"} # {} THEN "FATAL"
        ELSE IF w \cap {"financ", "loan", "bank"} # {} THEN "MAJOR"
        ELSE IF w \cap {"margin", "profit"} # {} THEN "MAJOR"
        ELSE "MINOR"

\* one step of the running maximum kept in both strategies
RaiseSeverity(max_severity, sev) ==
    IF sev = "FATAL" THEN "FATAL"
    ELSE IF sev = "MAJOR" /\ max_severity # "FATAL" THEN "MAJOR"
    ELSE IF sev = "MINOR" /\ max_severity = "NONE" THEN "MINOR"
    ELSE max_severity

RECURSIVE MaxSeverityFrom(_, _, _)
\* max_severity after the loop has seen critiques[i..]
MaxSeverityFrom(max_severity, critiques, i) ==
    IF i > Len(critiques) THEN max_severity
    ELSE MaxSeverityFrom(RaiseSeverity(max_severity, critiques[i].verdict), critiques, i + 1)

\* CritiqueResult starting the running maximum from the severity of the
\* earlier rounds
CritiqueResult_keeps_earlier_severity(st, critiques) ==
    LET max_severity == MaxSeverityFrom(Get(st, "critique_severity", "NONE"), critiques, 1)
    IN  [critique_history |-> << [round |-> Get(st, "revision_count", 0) + 1,
                                  critiques |-> critiques] >>,
         critique_severity |-> max_severity,
         plan_status |-> IF max_severity = "FATAL" THEN "BROKEN" ELSE "UNDER_REVIEW"]

\* CritiqueResult setting plan_status only when a critique is FATAL
CritiqueResult_keeps_status(st, critiques) ==
    LET max_severity == MaxSeverityFrom("NONE", critiques, 1)
    IN  [critique_history |-> << [round |-> Get(st, "revision_count", 0) + 1,
                                  critiques |-> critiques] >>,
         critique_severity |-> max_severity,
         plan_status |-> IF max_severity = "FATAL" THEN "BROKEN"
                         ELSE Get(st, "plan_status", "DRAFT")]

\* the dict both strategies return
CritiqueResult(st, critiques) ==
    LET max_severity == MaxSeverityFrom("NONE", critiques, 1)
    IN  [critique_history |-> << [round |-> Get(st, "revision_count", 0) + 1,
                                  critiques |-> critiques] >>,
         critique_severity |-> max_severity,
         plan_status |-> IF max_severity = "FATAL" THEN "BROKEN" ELSE "UNDER_REVIEW"]

adversary_critique_rule_based(st) ==
    LET assumptions == Get(st, "assumption_tree", <<>>)
        reality == Get(st, "reality_context", [sentinel |-> TRUE, lines |-> <<>>])
        critiques == [i \in 1..Len(assumptions) |->
                        [fracture |-> assumptions[i],
                         verdict |-> RuleSeverity(assumptions[i], reality)]]
    IN  CritiqueResult(st, critiques)

\* block.get("verdict", "MINOR").upper().strip(), then the substring tests
BlockSeverity(block) ==
    LET verdict_str == Get(block, "verdict", "MINOR")
    IN  IF verdict_str \in {"FATAL", "fatal", "FATAL - business failure"} THEN "FATAL"
        ELSE IF verdict_str \in {"MAJOR", "major"} THEN "MAJOR"
        ELSE "MINOR"

\* Replies to the critique prompt, as the blocks parse_structured_response
\* cuts them into (a block holds the fields that matched).
CritiqueReplies == {
    << >>,
    << [fracture |-> "llm fracture 1", verdict |-> "MINOR"] >>,
    << [fracture |-> "llm fracture 1", verdict |-> "MAJOR"] >>,
    << [fracture |-> "llm fracture 1", verdict |-> "major"],
       [fracture |-> "llm fracture 2"] >>,
    << [fracture |-> "llm fracture 1", verdict |-> "Critical"],
       [verdict |-> "FATAL - business failure"] >> }

\* adversary_critique accepting a reply that parsed to no block
adversary_critique_accepts_empty(st, o) ==
    LET blocks == IF o.kind = "reply" THEN o.reply ELSE <<>>
        critiques == [i \in 1..Len(blocks) |->
                        [fracture |-> Get(blocks[i], "fracture", "Unknown assumption"),
                         verdict |-> BlockSeverity(blocks[i])]]
    IN  IF o.kind = "reply"
        THEN Outcome(CritiqueResult(st, critiques), "primary", o, "")
        ELSE Outcome(adversary_critique_rule_based(st), "fallback", o,
                     FallbackWarning(o, "LLM adversary failed"))

adversary_critique(st, o) ==
    LET blocks == IF o.kind = "reply" THEN o.reply ELSE <<>>
        critiques == [i \in 1..Len(blocks) |->
                        [fracture |-> Get(blocks[i], "fracture", "Unknown assumption"),
                         verdict |-> BlockSeverity(blocks[i])]]
    IN  IF critiques # <<>>
        THEN Outcome(CritiqueResult(st, critiques), "primary", o, "")
        ELSE Outcome(adversary_critique_rule_based(st), "fallback", o,
                     FallbackWarning(o, "LLM adversary failed"))

--------------------------------------------------------------------------
(* agents/proponent.py *)

\* critiques[-1] if critiques else {"critiques": []}
Latest(critique_history) ==
    IF critique_history # <<>> THEN critique_history[Len(critique_history)]
    ELSE [critiques |-> <<>>]

\* the defense text chosen by the verdict of the critique answered
RuleDefense(verdict) ==
    IF verdict = "FATAL" THEN "ACCEPTED"
    ELSE IF verdict = "MAJOR" THEN "Partially accepted"
    ELSE "Noted"

\* DefenseResult numbering the defense rounds by their own count
DefenseResult_counts_rounds(st, defenses) ==
    [defense_history |-> << [round |-> Len(Get(st, "defense_history", <<>>)) + 1,
                             defenses |-> defenses] >>]

\* DefenseResult replacing the assumptions by the revised ones as well
DefenseResult_revises_assumptions(st, defenses) ==
    [defense_history |-> << [round |-> Get(st, "revision_count", 0) + 1,
                             defenses |-> defenses] >>,
     assumption_tree |-> << "revised assumption" >>]

DefenseResult(st, defenses) ==
    [defense_history |-> << [round |-> Get(st, "revision_count", 0) + 1,
                             defenses |-> defenses] >>]

\* proponent_revise_rule_based passing over the MINOR critiques
proponent_revise_rule_based_skips_minor(st) ==
    LET all == Get(Latest(Get(st, "critique_history", <<>>)), "critiques", <<>>)
        Serious(c) == Get(c, "verdict", "MINOR") # "MINOR"
        items == SelectSeq(all, Serious)
        defenses == [i \in 1..Len(items) |->
                       [response_to |-> Get(items[i], "fracture", "Unknown"),
                        defense |-> RuleDefense(Get(items[i], "verdict", "MINOR"))]]
    IN  DefenseResult(st, defenses)

proponent_revise_rule_based(st) ==
    LET items == Get(Latest(Get(st, "critique_history", <<>>)), "critiques", <<>>)
        defenses == [i \in 1..Len(items) |->
                       [response_to |-> Get(items[i], "fracture", "Unknown"),
                        defense |-> RuleDefense(Get(items[i], "verdict", "MINOR"))]]
    IN  DefenseResult(st, defenses)

\* Replies to the defense prompt, as the blocks the "RESPONSE TO:" split
\* yields (response_to is the first line of the block).
DefenseReplies == {
    << >>,
    << [response_to |-> "llm fracture 1", defense |-> "llm defense"],
       [response_to |-> ""] >> }

proponent_revise(st, o) ==
    LET defenses == IF o.kind = "reply" THEN o.reply ELSE <<>>
    IN  IF defenses # <<>>
        THEN Outcome(DefenseResult(st, defenses), "primary", o, "")
        ELSE Outcome(proponent_revise_rule_based(st), "fallback", o,
                     FallbackWarning(o, "LLM proponent failed"))

--------------------------------------------------------------------------
(* agents/judge.py *)

\* Replies to the judge prompt.
JudgeReplies == { "VERDICT: VALIDATED", "VERDICT: BROKEN", "VERDICT: NEEDS_REVISION",
                  "verdict : needs_revision", "The plan has merits and flaws." }

\* VerdictMatch without re.IGNORECASE
VerdictMatch_case_sensitive(response) ==
    CASE response = "VERDICT: VALIDATED"       -> "VALIDATED"
      [] response = "VERDICT: BROKEN"          -> "BROKEN"
      [] response = "VERDICT: NEEDS_REVISION"  -> "NEEDS_REVISION"
      [] OTHER                                 -> ""

\* re.search(r"VERDICT\s*:\s*(VALIDATED|NEEDS_REVISION|BROKEN)", response,
\* re.IGNORECASE), then group(1).upper(); "" when there is no match
VerdictMatch(response) ==
    CASE response = "VERDICT: VALIDATED"       -> "VALIDATED"
      [] response = "VERDICT: BROKEN"          -> "BROKEN"
      [] response = "VERDICT: NEEDS_REVISION"  -> "NEEDS_REVISION"
      [] response = "verdict : needs_revision" -> "NEEDS_REVISION"
      [] OTHER                                 -> ""

\* JudgeBrake counting the forced round as a revision
JudgeBrake_counts(critique_severity, revision_count) ==
    [plan_status |-> "BROKEN",
     human_override |-> "Max revisions reached. Plan needs external review.",
     awaiting_human |-> TRUE,
     revision_count |-> revision_count + 1]

\* the safety brake: max revisions reached
JudgeBrake(critique_severity, revision_count) ==
    IF critique_severity = "FATAL"
    THEN [plan_status |-> "BROKEN",
          human_override |-> "Max revisions reached with FATAL issues unresolved.",
          awaiting_human |-> TRUE]
    ELSE [plan_status |-> "BROKEN",
          human_override |-> "Max revisions reached. Plan needs external review.",
          awaiting_human |-> TRUE,
          revision_count |-> revision_count]

\* FATAL critiques always trigger human-in-the-loop
JudgeFatal(revision_count) ==
    [plan_status |-> "BROKEN",
     awaiting_human |-> TRUE,
     human_override |-> "FATAL critique detected - human review required before proceeding.",
     revision_count |-> revision_count]

\* JudgeVerdict with a NEEDS_REVISION verdict that forgets to count the round
JudgeVerdict_no_increment(verdict, response, revision_count) ==
    IF verdict = "VALIDATED"
    THEN [plan_status |-> "VALIDATED", awaiting_human |-> FALSE,
          revision_count |-> revision_count]
    ELSE IF verdict = "BROKEN"
    THEN [plan_status |-> "BROKEN", awaiting_human |-> TRUE,
          human_override |-> response, revision_count |-> revision_count]
    ELSE [plan_status |-> "NEEDS_REVISION", awaiting_human |-> FALSE,
          revision_count |-> revision_count]

\* the dict returned for a verdict parsed from the reply
JudgeVerdict(verdict, response, revision_count) ==
    IF verdict = "VALIDATED"
    THEN [plan_status |-> "VALIDATED", awaiting_human |-> FALSE,
          revision_count |-> revision_count]
    ELSE IF verdict = "BROKEN"
    THEN [plan_status |-> "BROKEN", awaiting_human |-> TRUE,
          human_override |-> response, revision_count |-> revision_count]
    ELSE [plan_status |-> "NEEDS_REVISION", awaiting_human |-> FALSE,
          revision_count |-> revision_count + 1]

\* JudgeRuleBased validating everything that is not MAJOR
JudgeRuleBased_validates_none(critique_severity, revision_count) ==
    IF critique_severity # "MAJOR"
    THEN [plan_status |-> "VALIDATED", awaiting_human |-> FALSE,
          revision_count |-> revision_count]
    ELSE [plan_status |-> "NEEDS_REVISION", awaiting_human |-> FALSE,
          revision_count |-> revision_count + 1]

\* JudgeRuleBased with the severity test inverted
JudgeRuleBased_inverted(critique_severity, revision_count) ==
    IF critique_severity # "MINOR"
    THEN [plan_status |-> "VALIDATED", awaiting_human |-> FALSE,
          revision_count |-> revision_count]
    ELSE [plan_status |-> "NEEDS_REVISION", awaiting_human |-> FALSE,
          revision_count |-> revision_count + 1]

\* JudgeRuleBased without the MINOR branch: every round is sent back
JudgeRuleBased_always_revises(critique_severity, revision_count) ==
    [plan_status |-> "NEEDS_REVISION", awaiting_human |-> FALSE,
     revision_count |-> revision_count + 1]

\* JudgeRuleBased asking for a human whenever it sends the plan back
JudgeRuleBased_awaits_human(critique_severity, revision_count) ==
    IF critique_severity = "MINOR"
    THEN [plan_status |-> "VALIDATED", awaiting_human |-> FALSE,
          revision_count |-> revision_count]
    ELSE [plan_status |-> "NEEDS_REVISION", awaiting_human |-> TRUE,
          revision_count |-> revision_count + 1]

\* the fallback rule-based judgment
JudgeRuleBased(critique_severity, revision_count) ==
    IF critique_severity = "MINOR"
    THEN [plan_status |-> "VALIDATED", awaiting_human |-> FALSE,
          revision_count |-> revision_count]
    ELSE [plan_status |-> "NEEDS_REVISION", awaiting_human |-> FALSE,
          revision_count |-> revision_count + 1]

\* BrakeFires with the comparison off by one
BrakeFires_strict(revision_count, max_revisions) == revision_count > max_revisions

\* does the brake fire
BrakeFires(revision_count, max_revisions) == revision_count >= max_revisions

\* human_judge without the FATAL gate
human_judge_no_fatal_gate(st, o) ==
    LET critique_severity == Get(st, "critique_severity", "NONE")
        revision_count == Get(st, "revision_count", 0)
        max_revisions == Get(st, "max_revisions", 3)
        verdict == IF o.kind = "reply" THEN VerdictMatch(o.reply) ELSE ""
    IN  IF BrakeFires(revision_count, max_revisions)
        THEN Outcome(JudgeBrake(critique_severity, revision_count), "gate", NotCalled(""), "")
        ELSE IF verdict # ""
        THEN Outcome(JudgeVerdict(verdict, o.reply, revision_count), "primary", o, "")
        ELSE Outcome(JudgeRuleBased(critique_severity, revision_count), "fallback", o,
                     FallbackWarning(o, "LLM judge failed"))

human_judge(st, o) ==
    LET critique_severity == Get(st, "critique_severity", "NONE")
        revision_count == Get(st, "revision_count", 0)
        max_revisions == Get(st, "max_revisions", 3)
        verdict == IF o.kind = "reply" THEN VerdictMatch(o.reply) ELSE ""
    IN  IF BrakeFires(revision_count, max_revisions)
        THEN Outcome(JudgeBrake(critique_severity, revision_count), "gate", NotCalled(""), "")
        ELSE IF critique_severity = "FATAL"
        THEN Outcome(JudgeFatal(revision_count), "gate", NotCalled(""), "")
        ELSE IF verdict # ""
        THEN Outcome(JudgeVerdict(verdict, o.reply, revision_count), "primary", o, "")
        ELSE Outcome(JudgeRuleBased(critique_severity, revision_count), "fallback", o,
                     FallbackWarning(o, "LLM judge failed"))

\* the judge calls call_claude only past both gates
JudgeCallsOracle(st) ==
    /\ ~BrakeFires(Get(st, "revision_count", 0), Get(st, "max_revisions", 3))
    /\ Get(st, "critique_severity", "NONE") # "FATAL"

--------------------------------------------------------------------------
(* graph.py: routing *)

\* should_continue sending FATAL on to the judge
should_continue_fatal_to_judge(st) ==
    LET severity == Get(st, "critique_severity", "NONE")
    IN  IF severity = "MAJOR" THEN "proponent_revise" ELSE "human_judge"

\* should_continue sending only MINOR straight to the judge
should_continue_defends_none(st) ==
    LET severity == Get(st, "critique_severity", "NONE")
    IN  IF severity = "FATAL" THEN "end"
        ELSE IF severity = "MINOR" THEN "human_judge"
        ELSE "proponent_revise"

\* should_continue sending every non-FATAL round to the proponent
should_continue_defends_minor(st) ==
    LET severity == Get(st, "critique_severity", "NONE")
    IN  IF severity = "FATAL" THEN "end" ELSE "proponent_revise"

should_continue(st) ==
    LET severity == Get(st, "critique_severity", "NONE")
    IN  IF severity = "FATAL" THEN "end"
        ELSE IF severity = "MAJOR" THEN "proponent_revise"
        ELSE "human_judge"

\* route_after_judge ending only on VALIDATED
route_after_judge_validated_only(st) ==
    LET status == Get(st, "plan_status", "")
    IN  IF status = "VALIDATED" THEN "end" ELSE "adversary_critique"

route_after_judge(st) ==
    LET status == Get(st, "plan_status", "")
    IN  IF status \in {"VALIDATED", "BROKEN"} THEN "end" ELSE "adversary_critique"

--------------------------------------------------------------------------
(* state.py / graph.py: merging a node's update into the state *)

\* ReducerMerge without the operator.add reducers: every key is overwritten
ReducerMerge_overwrites(st, upd) ==
    [k \in DOMAIN st \cup DOMAIN upd |-> IF k \in DOMAIN upd THEN upd[k] ELSE st[k]]

\* AgentState: critique_history and defense_history are Annotated with
\* operator.add (the compiled graph appends them); every other key is
\* overwritten.
ReducerMerge(st, upd) ==
    [k \in DOMAIN st \cup DOMAIN upd |->
        IF k \notin DOMAIN upd THEN st[k]
        ELSE IF k \in {"critique_history", "defense_history"} /\ k \in DOMAIN st
             THEN st[k] \o upd[k]
        ELSE upd[k]]

\* MockAssumeBreakGraph.invoke, after adversary_critique
MockApplyCritique(st, critique_result) ==
    Update(st,
        [critique_history |-> Get(st, "critique_history", <<>>)
                                \o Get(critique_result, "critique_history", <<>>),
         critique_severity |-> Get(critique_result, "critique_severity",
                                   Get(st, "critique_severity", "NONE")),
         plan_status |-> Get(critique_result, "plan_status", Get(st, "plan_status", "DRAFT"))])

\* MockAssumeBreakGraph.invoke, after proponent_revise
MockApplyRevise(st, revise_result) ==
    Update(st,
        [defense_history |-> Get(st, "defense_history", <<>>)
                                \o Get(revise_result, "defense_history", <<>>)])

\* The state after a node returned `upd`, by the executing graph object.
Apply(eng, nodename, st, upd) ==
    IF eng = "langgraph" THEN ReducerMerge(st, upd)
    ELSE IF nodename = "adversary_critique" THEN MockApplyCritique(st, upd)
    ELSE IF nodename = "proponent_revise" THEN MockApplyRevise(st, upd)
    ELSE Update(st, upd)

--------------------------------------------------------------------------
(* graph.py: stress_test_plan *)

initial_state(business_plan, max_revisions) ==
    [business_plan |-> business_plan,
     assumption_tree |-> <<>>,
     reality_context |-> [sentinel |-> FALSE, lines |-> <<>>],
     reality_citations |-> <<>>,
     critique_history |-> <<>>,
     defense_history |-> <<>>,
     plan_status |-> "DRAFT",
     critique_severity |-> "NONE",
     revision_count |-> 0,
     max_revisions |-> max_revisions,
     human_override |-> "",
     awaiting_human |-> FALSE]

\* config = {"recursion_limit": max_revisions * 5 + 20}
recursion_limit(max_revisions) == max_revisions * 5 + 20

\* the StressTestResult built from the final state
StressTestResult(final_state) ==
    [plan_status |-> Get(final_state, "plan_status", "DRAFT"),
     critique_severity |-> Get(final_state, "critique_severity", "NONE"),
     assumptions |-> Get(final_state, "assumption_tree", <<>>),
     critiques |-> Get(final_state, "critique_history", <<>>),
     defenses |-> Get(final_state, "defense_history", <<>>),
     reality_citations |-> Get(final_state, "reality_citations", <<>>),
     revision_count |-> Get(final_state, "revision_count", 0)]

NoResult == [plan_status |-> "", critique_severity |-> "", assumptions |-> <<>>,
             critiques |-> <<>>, defenses |-> <<>>, reality_citations |-> <<>>,
             revision_count |-> 0]

Init ==
    /\ \E plan \in Documents, m \in 0..MaxRev : state = initial_state(plan, m)
    /\ api_key \in BOOLEAN
    /\ langgraph \in BOOLEAN
    /\ engine = "none"
    /\ pc = "start"
    /\ iter = 0
    /\ steps = 0
    /\ node = ""
    /\ strategy = ""
    /\ oracle = ""
    /\ reply = <<>>
    /\ warning = ""
    /\ route = ""
    /\ result = NoResult
    /\ llm = NoCall
    /\ retrieval = NoRetrieval

\* Where control goes after a node when the edge leads to `target`: the
\* compiled graph raises once recursion_limit steps ran without reaching END.
Goto(eng, target, nsteps, max_revisions) ==
    IF eng = "langgraph" /\ target # "done" /\ nsteps >= recursion_limit(max_revisions)
    THEN "fault"
    ELSE target

\* build_assume_break_graph, then graph.invoke(initial_state, config=config):
\* without langgraph the graph object is a MockAssumeBreakGraph, whose invoke
\* takes no config and raises TypeError.
BuildAndInvoke ==
    /\ pc = "start"
    /\ node' = "build_assume_break_graph"
    /\ IF langgraph
       THEN /\ engine' = "langgraph"
            /\ warning' = ""
            /\ pc' = "extract_assumptions"
       ELSE /\ engine' = "mock"
            /\ warning' = "langgraph not installed"
            /\ pc' = "fault"
    /\ UNCHANGED <<state, api_key, langgraph, iter, steps, strategy, oracle, reply, route, result, llm, retrieval>>

\* the fallback calling the mock as the graph was called, with config=config
FallBackToMock_with_config ==
    /\ pc = "fault"
    /\ node' = "fall back to mock"
    /\ warning' = "LangGraph execution failed"
    /\ engine' = "mock"
    /\ pc' = "fault"
    /\ UNCHANGED <<state, api_key, langgraph, iter, steps, strategy, oracle, reply,
                   route, result, llm, retrieval>>

\* except Exception: warn, then MockAssumeBreakGraph().invoke(initial_state)
\* (its setdefault calls find every key present)
FallBackToMock ==
    /\ pc = "fault"
    /\ node' = "fall back to mock"
    /\ warning' = "LangGraph execution failed"
    /\ engine' = "mock"
    /\ state' = initial_state(state.business_plan, state.max_revisions)
    /\ iter' = 0
    /\ steps' = 0
    /\ pc' = "extract_assumptions"
    /\ strategy' = ""
    /\ oracle' = ""
    /\ reply' = <<>>
    /\ route' = ""
    /\ UNCHANGED <<api_key, langgraph, result, llm, retrieval>>

\* what every node step records about itself
Observe(name, out) ==
    /\ node' = name
    /\ strategy' = out.strategy
    /\ oracle' = out.oracle
    /\ reply' = out.reply
    /\ warning' = out.warning

ExtractStep ==
    /\ pc = "extract_assumptions"
    /\ \E o \in call_claude(api_key, ExtractReplies, <<>>) :
         LET out == extract_assumptions(state, o)
         IN  /\ state' = Apply(engine, "extract_assumptions", state, out.upd)
             /\ Observe("extract_assumptions", out)
    /\ steps' = steps + 1
    /\ pc' = Goto(engine, "retrieve_reality", steps', state.max_revisions)
    /\ UNCHANGED <<api_key, langgraph, engine, iter, route, result, llm, retrieval>>

RetrieveStep ==
    /\ pc = "retrieve_reality"
    /\ state' = Apply(engine, "retrieve_reality", state, fetch_reality(state))
    /\ Observe("retrieve_reality", Outcome(<<>>, "", NotCalled(<<>>), ""))
    /\ steps' = steps + 1
    /\ pc' = Goto(engine, "adversary_critique", steps', state.max_revisions)
    /\ UNCHANGED <<api_key, langgraph, engine, iter, route, result, llm, retrieval>>

\* the node a routing decision leads to
RouteTarget(r) == IF r = "end" THEN "done" ELSE r

CritiqueStep ==
    /\ pc = "adversary_critique"
    /\ \E o \in call_claude(api_key, CritiqueReplies, <<>>) :
         LET out == adversary_critique(state, o)
         IN  /\ state' = Apply(engine, "adversary_critique", state, out.upd)
             /\ Observe("adversary_critique", out)
    /\ steps' = steps + 1
    /\ route' = should_continue(state')
    /\ pc' = Goto(engine, RouteTarget(route'), steps', state.max_revisions)
    /\ UNCHANGED <<api_key, langgraph, engine, iter, result, llm, retrieval>>

DefendStep ==
    /\ pc = "proponent_revise"
    /\ \E o \in call_claude(api_key, DefenseReplies, <<>>) :
         LET out == proponent_revise(state, o)
         IN  /\ state' = Apply(engine, "proponent_revise", state, out.upd)
             /\ Observe("proponent_revise", out)
    /\ steps' = steps + 1
    /\ pc' = Goto(engine, "human_judge", steps', state.max_revisions)
    /\ UNCHANGED <<api_key, langgraph, engine, iter, route, result, llm, retrieval>>

\* the oracle outcomes a judge step can see
JudgeOutcomes(st, key) ==
    IF JudgeCallsOracle(st) THEN call_claude(key, JudgeReplies, "")
    ELSE {NotCalled("")}

\* MockLoop with one iteration too few: range(max_revisions)
MockLoop_short(r, i, max_revisions) ==
    IF r = "end" THEN "done"
    ELSE IF i + 1 < max_revisions THEN r
    ELSE "done"

\* MockAssumeBreakGraph.invoke: `for _ in range(max_revisions + 1)` goes on
\* to the next iteration or runs out
MockLoop(r, i, max_revisions) ==
    IF r = "end" THEN "done"
    ELSE IF i + 1 < max_revisions + 1 THEN r
    ELSE "done"

JudgeStep ==
    /\ pc = "human_judge"
    /\ \E o \in JudgeOutcomes(state, api_key) :
         LET out == human_judge(state, o)
         IN  /\ state' = Apply(engine, "human_judge", state, out.upd)
             /\ Observe("human_judge", out)
    /\ steps' = steps + 1
    /\ route' = route_after_judge(state')
    /\ iter' = IF engine = "mock" /\ route' # "end" THEN iter + 1 ELSE iter
    /\ pc' = IF engine = "mock"
             THEN MockLoop(route', iter, state.max_revisions)
             ELSE Goto(engine, RouteTarget(route'), steps', state.max_revisions)
    /\ UNCHANGED <<api_key, langgraph, engine, result, llm, retrieval>>

\* return StressTestResult(...)
Return ==
    /\ pc = "done"
    /\ result' = StressTestResult(state)
    /\ pc' = "returned"
    /\ node' = "return"
    /\ UNCHANGED <<state, api_key, langgraph, engine, iter, steps, strategy, oracle,
                   reply, warning, route, llm, retrieval>>

Next ==
    \/ BuildAndInvoke
    \/ FallBackToMock
    \/ ExtractStep
    \/ RetrieveStep
    \/ CritiqueStep
    \/ DefendStep
    \/ JudgeStep
    \/ Return

Spec == Init /\ [][Next]_vars

\* The run is sequential code: a step that can be taken is taken.
FairSpec == Spec /\ WF_vars(Next)

--------------------------------------------------------------------------
(* tests/: the node and routing functions called directly on a state the
   caller made *)

\* tests/test_agents.py, _make_state(): the defaults
make_state ==
    [business_plan |-> "diesel transport",
     assumption_tree |-> <<>>,
     reality_context |-> [sentinel |-> FALSE, lines |-> << [index |-> 1, fact |-> 15, score |-> 200] >>],
     reality_citations |-> << [index |-> 1, fact |-> 15] >>,
     critique_history |-> <<>>,
     defense_history |-> <<>>,
     plan_status |-> "DRAFT",
     critique_severity |-> "NONE",
     revision_count |-> 0,
     max_revisions |-> 3,
     human_override |-> "",
     awaiting_human |-> FALSE]

\* _make_state(critique_severity=..., revision_count=..., max_revisions=...)
\* as in TestJudge, and the one-key dicts of TestRouting
CallerStates ==
    { Update(make_state, [critique_severity |-> s, revision_count |-> r, max_revisions |-> m]) :
        s \in CritiqueSeverity, r \in 0..(MaxRev + 1), m \in 0..(MaxRev + 1) }
    \cup { [critique_severity |-> s] : s \in CritiqueSeverity }
    \cup { [plan_status |-> p] : p \in PlanStatus }
    \cup { <<>> }

CallInit ==
    /\ state \in CallerStates
    /\ api_key \in BOOLEAN
    /\ langgraph = FALSE
    /\ engine = "direct"
    /\ pc = "call"
    /\ iter = 0
    /\ steps = 0
    /\ node = ""
    /\ strategy = ""
    /\ oracle = ""
    /\ reply = <<>>
    /\ warning = ""
    /\ route = ""
    /\ result = NoResult
    /\ llm = NoCall
    /\ retrieval = NoRetrieval

\* result = human_judge(state); the caller merges the returned dict
CallJudge ==
    /\ pc = "call"
    /\ \E o \in JudgeOutcomes(state, api_key) :
         LET out == human_judge(state, o)
         IN  /\ state' = Update(state, out.upd)
             /\ Observe("human_judge", out)
    /\ pc' = "called"
    /\ UNCHANGED <<api_key, langgraph, engine, iter, steps, route, result, llm, retrieval>>

\* should_continue(state)
CallShouldContinue ==
    /\ pc = "call"
    /\ route' = should_continue(state)
    /\ node' = "should_continue"
    /\ pc' = "called"
    /\ UNCHANGED <<state, api_key, langgraph, engine, iter, steps, strategy, oracle,
                   reply, warning, result, llm, retrieval>>

\* route_after_judge(state)
CallRouteAfterJudge ==
    /\ pc = "call"
    /\ route' = route_after_judge(state)
    /\ node' = "route_after_judge"
    /\ pc' = "called"
    /\ UNCHANGED <<state, api_key, langgraph, engine, iter, steps, strategy, oracle,
                   reply, warning, result, llm, retrieval>>

\* call_claude(system_prompt, user_message, max_retries=R), with the
\* requests it makes behaving as `responses` says
CallClaude ==
    /\ pc = "call"
    /\ \E R \in 1..MaxRetries : \E responses \in [1..R -> Responses] :
         llm' = Update(call_claude_attempts(api_key, responses, R),
                       [responses |-> responses, max_retries |-> R])
    /\ node' = "call_claude"
    /\ pc' = "called"
    /\ UNCHANGED <<state, api_key, langgraph, engine, iter, steps, strategy, oracle,
                   reply, warning, route, result, retrieval>>

CallNext ==
    \/ CallJudge
    \/ CallShouldContinue
    \/ CallRouteAfterJudge
    \/ CallClaude

\* Runs of stress_test_plan together with direct calls of the functions.
CallSpec == (Init \/ CallInit) /\ [][Next \/ CallNext]_vars

--------------------------------------------------------------------------
(* Direct calls of the retrieval engine, as in tests/test_reality_engine.py *)

RetrievalInit ==
    /\ state \in { [business_plan |-> text] : text \in PlanTexts } \cup { <<>> }
    /\ api_key = FALSE
    /\ langgraph = FALSE
    /\ engine = "direct"
    /\ pc = "call"
    /\ iter = 0
    /\ steps = 0
    /\ node = ""
    /\ strategy = ""
    /\ oracle = ""
    /\ reply = <<>>
    /\ warning = ""
    /\ route = ""
    /\ result = NoResult
    /\ llm = NoCall
    /\ retrieval = NoRetrieval

\* the categories a caller of _score_fact passes as detected
DetectedSets(fact, plan_text) ==
    { {}, {fact.category}, Categories \ {fact.category}, _detect_categories(plan_text) }

\* _score_fact(fact, _tokenize(plan_text), detected_categories)
CallScoreFact ==
    /\ pc = "call"
    /\ state = <<>>
    /\ \E fact \in TestFacts \cup { ZAMBIAN_REALITY_DATABASE[i] :
                                      i \in 1..Len(ZAMBIAN_REALITY_DATABASE) } :
       \E plan_text \in PlanTexts :
       \E detected_categories \in DetectedSets(fact, plan_text) :
         retrieval' = [op |-> "_score_fact", fact |-> fact,
                       plan_tokens |-> _tokenize(plan_text),
                       detected_categories |-> detected_categories,
                       score |-> _score_fact(fact, _tokenize(plan_text),
                                             detected_categories)]
    /\ node' = "_score_fact"
    /\ pc' = "called"
    /\ UNCHANGED <<state, api_key, langgraph, engine, iter, steps, strategy, oracle,
                   reply, warning, route, result, llm>>

\* retrieve_relevant_facts(plan_text, top_k)
CallRetrieve ==
    /\ pc = "call"
    /\ state = <<>>
    /\ \E plan_text \in PlanTexts : \E top_k \in 0..MaxTopK :
         retrieval' = [op |-> "retrieve_relevant_facts", plan_text |-> plan_text,
                       top_k |-> top_k,
                       results |-> retrieve_relevant_facts(plan_text, top_k)]
    /\ node' = "retrieve_relevant_facts"
    /\ pc' = "called"
    /\ UNCHANGED <<state, api_key, langgraph, engine, iter, steps, strategy, oracle,
                   reply, warning, route, result, llm>>

\* fetch_reality(state); the caller merges the returned dict
CallFetchReality ==
    /\ pc = "call"
    /\ state' = Update(state, fetch_reality(state))
    /\ node' = "retrieve_reality"
    /\ pc' = "called"
    /\ UNCHANGED <<api_key, langgraph, engine, iter, steps, strategy, oracle,
                   reply, warning, route, result, llm, retrieval>>

RetrievalNext ==
    \/ CallScoreFact
    \/ CallRetrieve
    \/ CallFetchReality

RetrievalSpec == RetrievalInit /\ [][RetrievalNext]_vars

--------------------------------------------------------------------------
(* Shorthands for the claims *)

\* a run of stress_test_plan (not a direct call of a node)
InRun == engine # "direct"

TerminalStatus == {"VALIDATED", "BROKEN"}

\* the step just taken executed node `name`
Executed(name) == node' = name /\ vars' # vars

--------------------------------------------------------------------------
(* C1 *)

\* C1: stress_test_plan returns a result whose plan_status is VALIDATED or
\* BROKEN, never DRAFT, UNDER_REVIEW or NEEDS_REVISION, for every document,
\* every max_revisions >= 0 and every sequence of oracle outcomes.
C1_ResultIsTerminal ==
    pc = "returned" => result.plan_status \in TerminalStatus

\* a run that went through a revision round and returned VALIDATED
C1_Witness ==
    /\ pc = "returned"
    /\ result.plan_status = "VALIDATED"
    /\ result.revision_count > 0

--------------------------------------------------------------------------
(* C2 *)

\* some round of the history holds a FATAL critique
HasFatalRound(st) ==
    \E i \in 1..Len(st.critique_history) :
        \E j \in 1..Len(st.critique_history[i].critiques) :
            st.critique_history[i].critiques[j].verdict = "FATAL"

\* C2: if any critique round of a run has maximum severity FATAL, the final
\* state has plan_status = BROKEN and awaiting_human = TRUE; in every state
\* where critique_severity = FATAL has just been recorded, awaiting_human
\* is TRUE.
C2_FatalEscalatesToHuman ==
    /\ (InRun /\ pc \in {"done", "returned"} /\ HasFatalRound(state))
          => (state.plan_status = "BROKEN" /\ state.awaiting_human)
    /\ (InRun /\ node = "adversary_critique" /\ state.critique_severity = "FATAL")
          => state.awaiting_human

--------------------------------------------------------------------------
(* C3 *)

\* C3: in every state of a run started by stress_test_plan, revision_count
\* <= max_revisions; and the Judge step never increments revision_count when
\* it is entered with revision_count >= max_revisions (whoever calls it).
C3_RevisionCountCapped ==
    /\ [](InRun => state.revision_count <= state.max_revisions)
    /\ [][(Executed("human_judge")
            /\ Get(state, "revision_count", 0) >= Get(state, "max_revisions", 3))
          => Get(state', "revision_count", 0) = Get(state, "revision_count", 0)]_vars

\* a run whose Judge step hit the brake with revision_count = max_revisions > 0
C3_Witness ==
    /\ InRun
    /\ node = "human_judge"
    /\ strategy = "gate"
    /\ state.max_revisions > 0
    /\ state.revision_count = state.max_revisions

--------------------------------------------------------------------------
(* C4 *)

\* An upper bound on the steps a run still takes: the revisions left
\* before the brake (max_revisions - revision_count) order the rounds, the
\* position in the round orders the steps of one round.
Rank ==
    LET left == state.max_revisions - state.revision_count
    IN  CASE pc = "start"               -> 10 * state.max_revisions + 13
          [] pc = "fault"               -> 10 * state.max_revisions + 12
          [] pc = "extract_assumptions" -> 10 * state.max_revisions + 11
          [] pc = "retrieve_reality"    -> 10 * state.max_revisions + 10
          [] pc = "adversary_critique"  -> 10 * left + 9
          [] pc = "proponent_revise"    -> 10 * left + 8
          [] pc = "human_judge"         -> 10 * left + 7
          [] pc = "done"                -> 1
          [] OTHER                      -> 0

\* Some action of Next can be taken: control is at a node of the graph, and
\* at a node that consults the oracle call_claude has an outcome.  (TLC
\* finds StepAvailableIsEnabled to be an invariant of Spec; StepAvailable
\* is the cheaper of the two to evaluate.)
StepAvailable ==
    \/ pc \in {"start", "fault", "retrieve_reality", "done"}
    \/ pc = "extract_assumptions" /\ call_claude(api_key, ExtractReplies, <<>>) # {}
    \/ pc = "adversary_critique" /\ call_claude(api_key, CritiqueReplies, <<>>) # {}
    \/ pc = "proponent_revise" /\ call_claude(api_key, DefenseReplies, <<>>) # {}
    \/ pc = "human_judge" /\ JudgeOutcomes(state, api_key) # {}

StepAvailableIsEnabled == StepAvailable <=> ENABLED Next

\* C4: every run terminates: until stress_test_plan has returned a step can
\* always be taken, and every step strictly lowers Rank, a natural number
\* (each NEEDS_REVISION verdict increments revision_count, and the brake
\* ends the run once revision_count = max_revisions); so a run that keeps
\* taking steps (FairSpec) returns.  The debate loop executes at most
\* max_revisions + 1 Critique steps (each appends one round to
\* critique_history).
C4_RunTerminates ==
    /\ [](pc # "returned" => StepAvailable)
    /\ [][Rank' < Rank]_vars
    /\ [](Len(state.critique_history) <= state.max_revisions + 1)

\* a returned run that used all max_revisions + 1 Critique steps, after
\* at least one NEEDS_REVISION verdict
C4_Witness ==
    /\ pc = "returned"
    /\ state.max_revisions > 0
    /\ Len(state.critique_history) = state.max_revisions + 1

--------------------------------------------------------------------------
(* C5 *)

\* the notes the brake records in human_override
CapNotes == {"Max revisions reached with FATAL issues unresolved.",
             "Max revisions reached. Plan needs external review."}

\* C5: whenever the Judge step is entered with revision_count >=
\* max_revisions, it sets plan_status = BROKEN and awaiting_human = TRUE,
\* records a cap-exceeded note in human_override, and invokes neither the
\* oracle nor the fallback verdict rule - for every severity.
C5_BrakeForcesBroken ==
    [][(Executed("human_judge")
         /\ Get(state, "revision_count", 0) >= Get(state, "max_revisions", 3))
       => /\ state'.plan_status = "BROKEN"
          /\ state'.awaiting_human = TRUE
          /\ state'.human_override \in CapNotes
          /\ strategy' = "gate"
          /\ oracle' = "not called"]_vars

\* the brake fired on a state whose severity is NONE
C5_Witness ==
    /\ node = "human_judge"
    /\ strategy = "gate"
    /\ Get(state, "critique_severity", "") = "NONE"
    /\ Get(state, "revision_count", 0) >= Get(state, "max_revisions", 3)
    /\ state.human_override = "Max revisions reached. Plan needs external review."

--------------------------------------------------------------------------
(* C6 *)

\* C6: the Judge capability (oracle verdict or fallback rule) is never
\* executed while critique_severity = FATAL: a Judge step entered with
\* FATAL returns BROKEN with awaiting_human = TRUE through a gate, without
\* calling the oracle, and a Critique step that records FATAL ends the run.
C6_NoJudgeCapabilityOnFatal ==
    [][/\ (Executed("human_judge") /\ Get(state, "critique_severity", "NONE") = "FATAL")
          => /\ strategy' = "gate"
             /\ oracle' = "not called"
             /\ state'.plan_status = "BROKEN"
             /\ state'.awaiting_human = TRUE
       /\ (Executed("adversary_critique") /\ state'.critique_severity = "FATAL")
          => /\ route' = "end"
             /\ pc' = "done"]_vars

\* human_judge was called below the cap with severity FATAL
C6_Witness ==
    /\ node = "human_judge"
    /\ Get(state, "critique_severity", "") = "FATAL"
    /\ Get(state, "revision_count", 0) < Get(state, "max_revisions", 3)
    /\ strategy = "gate"
    /\ state.plan_status = "BROKEN"

--------------------------------------------------------------------------
(* C7 *)

\* C7: VALIDATED and BROKEN are absorbing: once plan_status is VALIDATED or
\* BROKEN no further node is executed, and plan_status, critique_history,
\* defense_history and revision_count never change again.
C7_TerminalIsAbsorbing ==
    [][state.plan_status \in TerminalStatus
       => /\ node' \notin {"extract_assumptions", "retrieve_reality", "adversary_critique",
                           "proponent_revise", "human_judge"}
          /\ state'.plan_status = state.plan_status
          /\ state'.critique_history = state.critique_history
          /\ state'.defense_history = state.defense_history
          /\ state'.revision_count = state.revision_count]_vars

\* a run returned after the Judge validated the plan
C7_Witness ==
    /\ pc = "returned"
    /\ node = "return"
    /\ state.plan_status = "VALIDATED"
    /\ Len(state.critique_history) > 1

--------------------------------------------------------------------------
(* C8 *)

\* C8: Route A after every Critique step (and for should_continue called on
\* any state): severity FATAL routes to end, MAJOR to proponent_revise, and
\* every other severity (MINOR, NONE or missing) to human_judge.
C8_RouteAfterCritique ==
    node \in {"adversary_critique", "should_continue"}
    => LET present == "critique_severity" \in DOMAIN state
           ran == node = "adversary_critique"
       IN  /\ (present /\ state.critique_severity = "FATAL")
                => (route = "end" /\ (ran => pc = "done"))
           /\ (present /\ state.critique_severity = "MAJOR")
                => (route = "proponent_revise" /\ (ran => pc = "proponent_revise"))
           /\ (~present \/ state.critique_severity \in {"MINOR", "NONE"})
                => (route = "human_judge" /\ (ran => pc = "human_judge"))

\* should_continue was called on a state of severity NONE
C8_Witness ==
    /\ node = "should_continue"
    /\ "critique_severity" \in DOMAIN state
    /\ state.critique_severity = "NONE"
    /\ route = "human_judge"

--------------------------------------------------------------------------
(* C9 *)

\* the keys a Judge step carries forward to the next Critique step
CarriedKeys == {"business_plan", "assumption_tree", "reality_context", "reality_citations",
                "critique_history", "defense_history"}

\* C9: Route B after every Judge step (and for route_after_judge called on
\* any state): plan_status VALIDATED or BROKEN routes to end;
\* NEEDS_REVISION routes back to adversary_critique, and the Judge step
\* leaves the assumptions, the fact context and all accumulated critique
\* and defense rounds as they were for the next Critique step.
C9_RouteAfterJudge ==
    [][/\ (Executed("human_judge") /\ InRun)
          => /\ state'.plan_status \in TerminalStatus
                => (route' = "end" /\ pc' = "done")
             /\ state'.plan_status = "NEEDS_REVISION"
                => (route' = "adversary_critique" /\ pc' = "adversary_critique")
             /\ \A k \in CarriedKeys : state'[k] = state[k]
       /\ Executed("route_after_judge")
          => /\ Get(state, "plan_status", "") \in TerminalStatus => route' = "end"
             /\ Get(state, "plan_status", "") = "NEEDS_REVISION"
                => route' = "adversary_critique"]_vars

\* a Judge step of a run sent a defended plan back to Critique
C9_Witness ==
    /\ InRun
    /\ node = "human_judge"
    /\ state.plan_status = "NEEDS_REVISION"
    /\ pc = "adversary_critique"
    /\ Len(state.critique_history) = 2
    /\ Len(state.defense_history) = 2

--------------------------------------------------------------------------
(* C10 *)

\* C10: when the Judge capability is invoked (revision_count <
\* max_revisions and severity not FATAL) and the oracle reply contains a
\* verdict, the result is: VALIDATED -> plan_status VALIDATED, awaiting_human
\* FALSE, revision_count unchanged; BROKEN -> plan_status BROKEN,
\* awaiting_human TRUE, revision_count unchanged; NEEDS_REVISION ->
\* plan_status NEEDS_REVISION, awaiting_human FALSE, revision_count + 1.
C10_OracleVerdictMapping ==
    [][(/\ Executed("human_judge")
        /\ Get(state, "revision_count", 0) < Get(state, "max_revisions", 3)
        /\ Get(state, "critique_severity", "NONE") # "FATAL"
        /\ oracle' = "reply")
       => LET rc == Get(state, "revision_count", 0)
          IN  /\ reply' = "VERDICT: VALIDATED"
                 => /\ state'.plan_status = "VALIDATED"
                    /\ state'.awaiting_human = FALSE
                    /\ state'.revision_count = rc
              /\ reply' = "VERDICT: BROKEN"
                 => /\ state'.plan_status = "BROKEN"
                    /\ state'.awaiting_human = TRUE
                    /\ state'.revision_count = rc
              /\ reply' \in {"VERDICT: NEEDS_REVISION", "verdict : needs_revision"}
                 => /\ state'.plan_status = "NEEDS_REVISION"
                    /\ state'.awaiting_human = FALSE
                    /\ state'.revision_count = rc + 1]_vars

\* the oracle's NEEDS_REVISION verdict was applied to a MINOR round
C10_Witness ==
    /\ node = "human_judge"
    /\ strategy = "primary"
    /\ reply = "verdict : needs_revision"
    /\ Get(state, "critique_severity", "") = "MINOR"
    /\ state.plan_status = "NEEDS_REVISION"
    /\ state.revision_count = 1

--------------------------------------------------------------------------
(* C11 *)

\* the judge's reply that holds no verdict
NoVerdictReply == "The plan has merits and flaws."

\* C11: when the Judge's primary strategy is unavailable or fails (no
\* credential, oracle error, or a reply with no recognisable verdict) and
\* neither gate fires, the fallback Judge returns VALIDATED (awaiting_human
\* FALSE, revision_count unchanged) if severity is MINOR, and NEEDS_REVISION
\* (awaiting_human FALSE, revision_count + 1) for every other severity.
C11_FallbackJudge ==
    [][(/\ Executed("human_judge")
        /\ Get(state, "revision_count", 0) < Get(state, "max_revisions", 3)
        /\ Get(state, "critique_severity", "NONE") # "FATAL"
        /\ \/ oracle' \in {"no_key", "error"}
           \/ oracle' = "reply" /\ reply' = NoVerdictReply)
       => LET rc == Get(state, "revision_count", 0)
          IN  IF Get(state, "critique_severity", "NONE") = "MINOR"
              THEN /\ state'.plan_status = "VALIDATED"
                   /\ state'.awaiting_human = FALSE
                   /\ state'.revision_count = rc
              ELSE /\ state'.plan_status = "NEEDS_REVISION"
                   /\ state'.awaiting_human = FALSE
                   /\ state'.revision_count = rc + 1]_vars

\* the fallback judged a state of severity NONE after a reply without verdict
C11_Witness ==
    /\ node = "human_judge"
    /\ strategy = "fallback"
    /\ oracle = "reply"
    /\ reply = NoVerdictReply
    /\ Get(state, "critique_severity", "") = "NONE"
    /\ state.plan_status = "NEEDS_REVISION"
    /\ state.revision_count = 1

--------------------------------------------------------------------------
(* C12 *)

\* the primary strategy of the node just executed failed: call_claude raised
\* NoAPIKeyError or another error, or the reply parsed to nothing
PrimaryFailed(name, none) ==
    /\ Executed(name)
    /\ \/ oracle' \in {"no_key", "error"}
       \/ oracle' = "reply" /\ reply' = none

\* C12: for each capability (Extract, Critique, Defend, Judge past its
\* gates): if the primary strategy raises the credential-absence signal,
\* raises any other error, or yields zero parsed results, the step's result
\* is the fallback strategy's outcome, with the capability's output keys,
\* and no error propagates to the orchestrator (the run goes on to the
\* next node).
C12_FallbackOnPrimaryFailure ==
    [][/\ PrimaryFailed("extract_assumptions", <<JunkLine>>)
          => /\ strategy' = "fallback"
             /\ state' = Apply(engine, "extract_assumptions", state,
                               [assumption_tree |-> extract_assumptions_rule_based(state.business_plan),
                                plan_status |-> "UNDER_REVIEW"])
             /\ pc' = "retrieve_reality"
       /\ PrimaryFailed("adversary_critique", <<>>)
          => /\ strategy' = "fallback"
             /\ DOMAIN adversary_critique_rule_based(state)
                  = {"critique_history", "critique_severity", "plan_status"}
             /\ state' = Apply(engine, "adversary_critique", state,
                               adversary_critique_rule_based(state))
             /\ pc' \in {"proponent_revise", "human_judge", "done"}
       /\ PrimaryFailed("proponent_revise", <<>>)
          => /\ strategy' = "fallback"
             /\ DOMAIN proponent_revise_rule_based(state) = {"defense_history"}
             /\ state' = Apply(engine, "proponent_revise", state,
                               proponent_revise_rule_based(state))
             /\ pc' = "human_judge"
       /\ (/\ state.revision_count < state.max_revisions
           /\ state.critique_severity # "FATAL"
           /\ PrimaryFailed("human_judge", NoVerdictReply))
          => /\ strategy' = "fallback"
             /\ DOMAIN JudgeRuleBased(state.critique_severity, state.revision_count)
                  = {"plan_status", "awaiting_human", "revision_count"}
             /\ state' = Apply(engine, "human_judge", state,
                               JudgeRuleBased(state.critique_severity, state.revision_count))
             /\ pc' \in {"adversary_critique", "done"}]_vars

\* a Critique step fell back after a reply that parsed to no block, and the
\* run went on to the Defend step
C12_Witness ==
    /\ node = "adversary_critique"
    /\ oracle = "reply"
    /\ reply = <<>>
    /\ strategy = "fallback"
    /\ Len(state.critique_history) = 2
    /\ pc = "proponent_revise"

--------------------------------------------------------------------------
(* C13 *)

\* the warnings the four capabilities emit
CapabilityWarnings == {"LLM extraction failed", "LLM adversary failed",
                       "LLM proponent failed", "LLM judge failed"}

\* C13: when no credential is configured, call_claude raises NoAPIKeyError
\* before making any request (zero requests, zero sleeps), and every
\* capability of a run then falls back without emitting a warning: a whole
\* run without credentials emits no capability warning.
C13_NoKeyIsSilent ==
    /\ (node = "call_claude" /\ ~api_key)
          => /\ llm.raised = "NoAPIKeyError"
             /\ llm.invocations = 0
             /\ llm.sleeps = <<>>
    /\ (InRun /\ ~api_key)
          => /\ warning \notin CapabilityWarnings
             /\ oracle \in {"", "not called", "no_key"}
             /\ strategy # "primary"

\* a run without credentials whose Judge fell back in its second round
C13_Witness ==
    /\ InRun
    /\ ~api_key
    /\ node = "human_judge"
    /\ oracle = "no_key"
    /\ strategy = "fallback"
    /\ warning = ""
    /\ Len(state.critique_history) = 2

--------------------------------------------------------------------------
(* C14 *)

\* the four capability nodes
CapabilityNodes == {"extract_assumptions", "adversary_critique",
                    "proponent_revise", "human_judge"}

\* C14: whenever a capability's primary strategy fails for a reason other
\* than credential absence - an oracle error after the retries, or a
\* malformed reply that parses to zero blocks (for the Judge: no
\* recognisable verdict) - a warning is emitted before the fallback outcome
\* is returned.
C14_WarningOnPrimaryFailure ==
    (/\ InRun
     /\ node \in CapabilityNodes
     /\ strategy = "fallback"
     /\ oracle \in {"error", "reply"})
    => warning \in CapabilityWarnings

--------------------------------------------------------------------------
(* C15 *)

\* the re-run on MockAssumeBreakGraph after the graph execution failed
InRerun == engine = "mock" /\ node # "build_assume_break_graph"

--------------------------------------------------------------------------
(* C16 *)

\* sequence a is a prefix of sequence b
IsPrefix(a, b) == Len(a) <= Len(b) /\ SubSeq(b, 1, Len(a)) = a

\* C16: critique_history and defense_history are append-only: across every
\* step of a run the previous value of each history is a prefix of its new
\* value; a Critique step appends exactly one round to critique_history, a
\* Defend step exactly one round to defense_history, and no other step
\* changes either history.
C16_HistoriesAppendOnly ==
    [][/\ IsPrefix(state.critique_history, state'.critique_history)
       /\ IsPrefix(state.defense_history, state'.defense_history)
       /\ Executed("adversary_critique")
            => /\ Len(state'.critique_history) = Len(state.critique_history) + 1
               /\ state'.defense_history = state.defense_history
       /\ Executed("proponent_revise")
            => /\ Len(state'.defense_history) = Len(state.defense_history) + 1
               /\ state'.critique_history = state.critique_history
       /\ node' \notin {"adversary_critique", "proponent_revise"}
            => /\ state'.critique_history = state.critique_history
               /\ state'.defense_history = state.defense_history]_vars

\* the compiled graph appended a second defense round
C16_Witness ==
    /\ engine = "langgraph"
    /\ node = "proponent_revise"
    /\ Len(state.critique_history) = 2
    /\ Len(state.defense_history) = 2

--------------------------------------------------------------------------
(* C17 *)

\* the round indices of critique_history are 1, 2, 3, ...
CritiqueRoundsCounted ==
    \A i \in 1..Len(state.critique_history) : state.critique_history[i].round = i

\* C17 (as claimed): in every run the round indices in critique_history are
\* 1, 2, 3, ... and the round indices in defense_history are likewise
\* consecutive (each exactly 1 more than the previous); each defense round
\* carries the index of a critique round.
C17_RoundIndicesConsecutive ==
    InRun =>
        /\ CritiqueRoundsCounted
        /\ \A i \in 2..Len(state.defense_history) :
              state.defense_history[i].round = state.defense_history[i - 1].round + 1
        /\ \A i \in 1..Len(state.defense_history) :
              state.defense_history[i].round \in 1..Len(state.critique_history)

\* C17 (amended): in every run the round indices in critique_history are
\* 1, 2, 3, ...; the round indices in defense_history are strictly
\* increasing, each being the index of the critique round of its debate
\* iteration (iterations that were not defended leave gaps); a Defend
\* step's round carries the index of the latest critique round, and a
\* fallback defense answers the critiques of that round, one by one.
C17_RoundIndicesFollowIterations ==
    /\ [](InRun =>
            /\ CritiqueRoundsCounted
            /\ \A i \in 2..Len(state.defense_history) :
                  state.defense_history[i].round > state.defense_history[i - 1].round
            /\ \A i \in 1..Len(state.defense_history) :
                  state.defense_history[i].round \in 1..Len(state.critique_history))
    /\ [][Executed("proponent_revise")
          => LET d == state'.defense_history[Len(state'.defense_history)]
                 c == state.critique_history[Len(state.critique_history)]
             IN  /\ d.round = c.round
                 /\ d.round = Len(state.critique_history)
                 /\ strategy' = "fallback"
                      => /\ Len(d.defenses) = Len(c.critiques)
                         /\ \A i \in 1..Len(c.critiques) :
                               d.defenses[i].response_to = c.critiques[i].fracture]_vars

\* the first and the third iteration were defended, the second was not
C17_Witness ==
    /\ InRun
    /\ Len(state.critique_history) = 3
    /\ Len(state.defense_history) = 2
    /\ state.defense_history[1].round = 1
    /\ state.defense_history[2].round = 3

--------------------------------------------------------------------------
(* C18 *)

\* the maximum severity among the critiques of one round, in the ordering
\* FATAL > MAJOR > MINOR > NONE
RoundMax(critiques) ==
    LET Has(v) == \E i \in 1..Len(critiques) : critiques[i].verdict = v
    IN  IF Has("FATAL") THEN "FATAL"
        ELSE IF Has("MAJOR") THEN "MAJOR"
        ELSE IF Has("MINOR") THEN "MINOR"
        ELSE "NONE"

\* C18: after every Critique step (primary or fallback), critique_severity
\* equals the maximum severity among the critiques of the newly appended
\* round only (FATAL > MAJOR > MINOR > NONE, whatever the earlier rounds
\* were), and plan_status is BROKEN if that maximum is FATAL and
\* UNDER_REVIEW otherwise.
C18_SeverityIsRoundMaximum ==
    [][Executed("adversary_critique")
       => LET new == state'.critique_history[Len(state'.critique_history)]
          IN  /\ state'.critique_severity = RoundMax(new.critiques)
              /\ state'.plan_status = IF RoundMax(new.critiques) = "FATAL"
                                      THEN "BROKEN" ELSE "UNDER_REVIEW"]_vars

\* a MINOR round was recorded after a MAJOR round
C18_Witness ==
    /\ node = "adversary_critique"
    /\ Len(state.critique_history) = 2
    /\ RoundMax(state.critique_history[1].critiques) = "MAJOR"
    /\ RoundMax(state.critique_history[2].critiques) = "MINOR"
    /\ state.critique_severity = "MINOR"
    /\ state.plan_status = "UNDER_REVIEW"

--------------------------------------------------------------------------
(* C19 *)

\* the critique rounds of maximum severity MAJOR
MajorRounds ==
    {i \in 1..Len(state.critique_history) :
        RoundMax(state.critique_history[i].critiques) = "MAJOR"}

\* control is between two debate iterations, or past the last one
BetweenIterations ==
    \/ pc = "adversary_critique" /\ node \in {"retrieve_reality", "human_judge"}
    \/ pc \in {"done", "returned"}

\* C19: a defense round is appended in a debate iteration if and only if
\* that iteration's critique round has maximum severity MAJOR: between
\* iterations the number of defense rounds equals the number of critique
\* rounds of severity MAJOR (the defense rounds are those of the MAJOR
\* rounds), and a Defend step is never executed for a MINOR, NONE or FATAL
\* round.
C19_DefenseIffMajor ==
    /\ []((InRun /\ BetweenIterations)
            => /\ Len(state.defense_history) = Cardinality(MajorRounds)
               /\ {state.defense_history[i].round : i \in 1..Len(state.defense_history)}
                    = MajorRounds)
    /\ [][Executed("proponent_revise")
          => /\ state.critique_severity = "MAJOR"
             /\ RoundMax(state.critique_history[Len(state.critique_history)].critiques)
                  = "MAJOR"]_vars

\* a run ended after a MAJOR round that was defended and a MINOR round that
\* was not
C19_Witness ==
    /\ pc = "done"
    /\ Len(state.critique_history) = 2
    /\ MajorRounds = {1}
    /\ RoundMax(state.critique_history[2].critiques) = "MINOR"
    /\ Len(state.defense_history) = 1

--------------------------------------------------------------------------
(* C20 *)

\* every critique round so far has maximum severity MAJOR
AllRoundsMajor ==
    /\ state.critique_history # <<>>
    /\ MajorRounds = 1..Len(state.critique_history)

\* C20: for every max_revisions = N >= 0, a run in which every critique
\* round has maximum severity MAJOR and every Judge decision is made by the
\* fallback strategy ends with plan_status = BROKEN, revision_count = N and
\* awaiting_human = TRUE, by the cap gate, after exactly N + 1 critique
\* rounds, and plan_status is never VALIDATED in it.  Stated on what the
\* state records: a run of MAJOR rounds that did not end on an oracle
\* verdict ended at the cap gate as described, and in a run of MAJOR rounds
\* only an oracle verdict makes plan_status VALIDATED (an earlier oracle
\* verdict of such a run can only have been NEEDS_REVISION, which has the
\* effect of the fallback's decision).
C20_AllMajorEndsAtCap ==
    /\ (InRun /\ pc \in {"done", "returned"} /\ AllRoundsMajor /\ strategy # "primary")
          => /\ strategy = "gate"
             /\ state.plan_status = "BROKEN"
             /\ state.revision_count = state.max_revisions
             /\ state.awaiting_human = TRUE
             /\ state.human_override = "Max revisions reached. Plan needs external review."
             /\ Len(state.critique_history) = state.max_revisions + 1
    /\ (InRun /\ AllRoundsMajor /\ state.plan_status = "VALIDATED")
          => strategy = "primary"
    /\ (InRun /\ AllRoundsMajor /\ node = "human_judge" /\ strategy = "fallback")
          => /\ state.plan_status = "NEEDS_REVISION"
             /\ pc = "adversary_critique"

\* a run without credentials (every decision by the fallback) of three
\* MAJOR rounds ended at the cap
C20_Witness ==
    /\ InRun
    /\ ~api_key
    /\ pc = "returned"
    /\ AllRoundsMajor
    /\ state.max_revisions = 2
    /\ Len(state.critique_history) = 3
    /\ result.plan_status = "BROKEN"
    /\ result.revision_count = 2

--------------------------------------------------------------------------
(* C21 *)

\* the round holds critiques, all of them MINOR
OnlyMinor(round) ==
    /\ round.critiques # <<>>
    /\ \A i \in 1..Len(round.critiques) : round.critiques[i].verdict = "MINOR"

--------------------------------------------------------------------------
(* C22 *)

\* call_claude was called directly with a credential configured
KeyedCall == node = "call_claude" /\ api_key

\* the exception class a failing request raises
ErrorOf(response) ==
    CASE response = "rate_limit" -> "RateLimitError"
      [] response = "api_error"  -> "APIError"
      [] OTHER                   -> "Exception"

\* C22: call_claude with a credential and max_retries = R >= 1 makes at
\* least 1 and at most R requests, whatever the requests do: it returns the
\* reply of the first successful request and makes no further request; if
\* all R requests fail it raises the last error; an APIError that is no
\* rate limit is re-raised at once on the final attempt (no sleep follows).
C22_BoundedRetries ==
    KeyedCall =>
        LET R == llm.max_retries
            rs == llm.responses
            n == llm.invocations
            Transient(i) == rs[i] \in {"rate_limit", "api_error"}
        IN  /\ 1 <= n /\ n <= R
            /\ llm.kind = "reply"
                 => (rs[n] = "ok" /\ \A i \in 1..(n - 1) : rs[i] # "ok")
            /\ \A k \in 1..R :
                 (rs[k] = "ok" /\ \A i \in 1..(k - 1) : Transient(i))
                    => (llm.kind = "reply" /\ llm.raised = "" /\ n = k)
            /\ (\A i \in 1..R : Transient(i))
                 => (n = R /\ llm.kind = "error" /\ llm.raised = ErrorOf(rs[R]))
            /\ (\A i \in 1..(R - 1) : Transient(i)) /\ rs[R] = "api_error"
                 => (llm.raised = "APIError" /\ Len(llm.sleeps) = R - 1)

\* two requests failed, the third and last returned the reply
C22_Witness ==
    /\ KeyedCall
    /\ llm.max_retries = 3
    /\ llm.responses = <<"api_error", "rate_limit", "ok">>
    /\ llm.kind = "reply"
    /\ llm.invocations = 3
    /\ llm.sleeps = <<1, 4>>

--------------------------------------------------------------------------
(* C23 *)

\* C23 (as claimed): in call_claude a rate-limit response is always
\* retried: every request that fails with a rate-limit error is followed by
\* another request, whichever attempt it was.
C23_RateLimitAlwaysRetried ==
    KeyedCall =>
        \A i \in 1..llm.invocations :
            llm.responses[i] = "rate_limit" => llm.invocations > i

\* C23 (amended): a request that fails with a rate-limit error is followed
\* by a backoff sleep of 2^attempt seconds (attempt counted from 1),
\* whichever attempt it was, and by another request on every attempt but
\* the last: after the sleep that follows a rate limit on the last (R-th)
\* attempt call_claude raises that RateLimitError.
C23_RateLimitRetriedWithinBudget ==
    KeyedCall =>
        \A i \in 1..llm.invocations :
            llm.responses[i] = "rate_limit"
               => /\ Len(llm.sleeps) >= i
                  /\ llm.sleeps[i] = 2 ^ i
                  /\ i < llm.max_retries => llm.invocations > i
                  /\ i = llm.max_retries
                       => /\ llm.invocations = i
                          /\ llm.kind = "error"
                          /\ llm.raised = "RateLimitError"
                          /\ Len(llm.sleeps) = i

\* every request of the budget hit the rate limit
C23_Witness ==
    /\ KeyedCall
    /\ llm.max_retries = 3
    /\ llm.responses = <<"rate_limit", "rate_limit", "rate_limit">>
    /\ llm.invocations = 3
    /\ llm.sleeps = <<2, 4, 8>>
    /\ llm.raised = "RateLimitError"

--------------------------------------------------------------------------
(* Retrieval *)

\* some keyword of some fact of the corpus matches the tokens, exactly or
\* fuzzily
MatchesSomeKeyword(plan_tokens) ==
    \E i \in 1..Len(ZAMBIAN_REALITY_DATABASE) :
       \E k \in 1..Len(ZAMBIAN_REALITY_DATABASE[i].keywords) :
          LET keyword == ZAMBIAN_REALITY_DATABASE[i].keywords[k]
          IN  ExactMatch(keyword, plan_tokens) + FuzzyMatch(keyword, plan_tokens) > 0

\* some indicator of some category occurs in the text
HoldsSomeIndicator(plan_text) ==
    \E category \in Categories :
       CATEGORY_INDICATORS(category) \cap IndicatorsIn(plan_text) # {}

\* the sentinel context and the single sentinel citation of fetch_reality
SentinelContext == [sentinel |-> TRUE, lines |-> <<>>]
SentinelCitations == << [index |-> 0, fact |-> -1] >>

\* C24: retrieval on an empty input, or on an input that matches no keyword
\* and holds no category indicator, returns the empty ranked list; and what
\* fetch_reality returns is, for an empty ranked list, the sentinel context
\* with exactly one sentinel citation, and otherwise one context line and one
\* citation per ranked fact, numbered 1..n in rank order, so that
\* reality_citations is never empty.
C24_SentinelOrOneLinePerFact ==
    /\ retrieval.op = "retrieve_relevant_facts"
          => LET plan_tokens == _tokenize(retrieval.plan_text)
             IN  (\/ plan_tokens = <<>>
                  \/ (~MatchesSomeKeyword(plan_tokens)
                      /\ ~HoldsSomeIndicator(retrieval.plan_text)))
                    => retrieval.results = <<>>
    /\ (node = "retrieve_reality" /\ engine = "direct")
          => LET ranked == retrieve_relevant_facts(Get(state, "business_plan", ""), TOP_K)
                 n == Len(ranked)
             IN  /\ state.reality_citations # <<>>
                 /\ n = 0 => /\ state.reality_context = SentinelContext
                             /\ state.reality_citations = SentinelCitations
                 /\ n > 0 => /\ ~state.reality_context.sentinel
                             /\ Len(state.reality_context.lines) = n
                             /\ Len(state.reality_citations) = n
                             /\ \A i \in 1..n :
                                  /\ state.reality_context.lines[i].index = i
                                  /\ state.reality_context.lines[i].fact = ranked[i].fact
                                  /\ state.reality_context.lines[i].score = ranked[i].score
                                  /\ state.reality_citations[i].index = i
                                  /\ state.reality_citations[i].fact = ranked[i].fact

\* fetch_reality on "A small shop.", which matches nothing, returned the
\* sentinel context and the one sentinel citation
C24_Witness ==
    /\ node = "retrieve_reality"
    /\ engine = "direct"
    /\ Get(state, "business_plan", "") = "small shop"
    /\ retrieve_relevant_facts("small shop", TOP_K) = <<>>
    /\ state.reality_context = SentinelContext
    /\ Len(state.reality_citations) = 1

\* the score retrieval gives the fact with index f of the corpus for a text
ScoreInCorpus(f, plan_text) ==
    _score_fact(ZAMBIAN_REALITY_DATABASE[f + 1], _tokenize(plan_text),
                _detect_categories(plan_text))

\* C25: retrieve_relevant_facts(text, top_k) returns at most top_k facts, each
\* with a score above 0, the scores never increasing along the list, facts of
\* equal score in corpus order, and no fact left out that scores strictly
\* more than a returned one (top_k is a count, 0 or more).
C25_RankedTopK ==
    retrieval.op = "retrieve_relevant_facts"
       => LET results == retrieval.results
              n == Len(results)
              returned == { results[i].fact : i \in 1..n }
          IN  /\ n <= retrieval.top_k
              /\ \A i \in 1..n : results[i].score > 0
              /\ \A i \in 1..n :
                   results[i].score = ScoreInCorpus(results[i].fact, retrieval.plan_text)
              /\ \A i, j \in 1..n :
                   i < j => /\ results[i].score >= results[j].score
                            /\ results[i].score = results[j].score
                                  => results[i].fact < results[j].fact
              /\ \A f \in 0..(Len(ZAMBIAN_REALITY_DATABASE) - 1) :
                   f \notin returned
                      => \A i \in 1..n :
                            ScoreInCorpus(f, retrieval.plan_text) <= results[i].score

\* the default top_k on the copper mining plan: fifteen facts score above 0,
\* ten are returned, the first two with the same score and in corpus order
C25_Witness ==
    /\ retrieval.op = "retrieve_relevant_facts"
    /\ retrieval.plan_text = "copper mining"
    /\ retrieval.top_k = TOP_K
    /\ Len(retrieval.results) = 10
    /\ Len(Scored(_tokenize("copper mining"), _detect_categories("copper mining"))) = 15
    /\ retrieval.results[1] = [fact |-> 18, score |-> 800]
    /\ retrieval.results[2] = [fact |-> 19, score |-> 800]
    /\ retrieval.results[10] = [fact |-> 9, score |-> 75]

\* some keyword of the fact equals some token
ExactHit(fact, plan_tokens) ==
    \E k \in 1..Len(fact.keywords) : \E i \in 1..Len(plan_tokens) :
       fact.keywords[k] = plan_tokens[i]

\* C26: a fact with a keyword equal to a token scores at least 3.0; scoring a
\* fact with its category among the detected ones gives exactly 2.0 more than
\* scoring it with no category detected, whatever the number of its keywords;
\* so a fact with an exact hit and its category detected scores at least 5.0.
C26_ExactHitAndCategoryBoost ==
    retrieval.op = "_score_fact"
       => LET fact == retrieval.fact
              plan_tokens == retrieval.plan_tokens
              boosted == fact.category \in retrieval.detected_categories
          IN  /\ ExactHit(fact, plan_tokens) => retrieval.score >= 300
              /\ boosted => retrieval.score = _score_fact(fact, plan_tokens, {}) + 200
              /\ ~boosted => retrieval.score = _score_fact(fact, plan_tokens, {})
              /\ (ExactHit(fact, plan_tokens) /\ boosted) => retrieval.score >= 500

\* the first fact of the corpus (seven keywords, four of them tokens of the
\* turnover tax plan) scored with TAX detected: 4 * 3.0 + 2.0
C26_Witness ==
    /\ retrieval.op = "_score_fact"
    /\ retrieval.fact = ZAMBIAN_REALITY_DATABASE[1]
    /\ retrieval.plan_tokens = _tokenize("turnover tax")
    /\ retrieval.detected_categories = {"TAX"}
    /\ ExactHit(retrieval.fact, retrieval.plan_tokens)
    /\ retrieval.score = 1400

--------------------------------------------------------------------------
(* The life of plan_status in a run *)

\* a run starts from the state stress_test_plan builds
StartsFresh ==
    pc = "start" => /\ state.plan_status = "DRAFT"
                    /\ state.critique_severity = "NONE"
                    /\ state.revision_count = 0

\* plan_status changes in a step of a run only along the edges of `edges`
ChangesAlong(edges) ==
    InRun => \/ state'.plan_status = state.plan_status
             \/ <<state.plan_status, state'.plan_status>> \in edges

\* the edges the state diagram names
DiagramEdges ==
    { <<"DRAFT", "UNDER_REVIEW">>, <<"UNDER_REVIEW", "NEEDS_REVISION">>,
      <<"NEEDS_REVISION", "UNDER_REVIEW">>, <<"UNDER_REVIEW", "VALIDATED">>,
      <<"UNDER_REVIEW", "BROKEN">> }

\* C28 as stated: a run starts with DRAFT, NONE and 0, and plan_status
\* changes only along DRAFT -> UNDER_REVIEW, UNDER_REVIEW -> NEEDS_REVISION,
\* NEEDS_REVISION -> UNDER_REVIEW, UNDER_REVIEW -> VALIDATED and
\* UNDER_REVIEW -> BROKEN: it never returns to DRAFT and a terminal status is
\* entered only from UNDER_REVIEW.
C28_StatusFollowsDiagram ==
    /\ []StartsFresh
    /\ [][ChangesAlong(DiagramEdges)]_vars

\* C28, amended: a run starts with DRAFT, NONE and 0, and plan_status changes
\* only along the edges above and NEEDS_REVISION -> BROKEN (a FATAL critique
\* in a round after the first): it never returns to DRAFT, VALIDATED is
\* entered only from UNDER_REVIEW, and BROKEN from UNDER_REVIEW or from
\* NEEDS_REVISION.
C28_StatusFollowsDiagramOrFatal ==
    /\ []StartsFresh
    /\ [][ChangesAlong(DiagramEdges \cup { <<"NEEDS_REVISION", "BROKEN">> })]_vars

\* a second round of critique, entered with NEEDS_REVISION, found a FATAL
\* fracture and left the plan BROKEN
C28_Witness ==
    /\ InRun
    /\ node = "adversary_critique"
    /\ Len(state.critique_history) = 2
    /\ state.revision_count = 1
    /\ state.critique_severity = "FATAL"
    /\ state.plan_status = "BROKEN"

--------------------------------------------------------------------------
(* The mock and the compiled graph *)

\* the oracle outcome of the step just taken, as the step recorded it
ObservedOutcome == [kind |-> oracle', reply |-> reply']

\* what the node at pc returns on the state, given the step's oracle outcome
NodeUpdate ==
    CASE pc = "extract_assumptions" -> extract_assumptions(state, ObservedOutcome).upd
      [] pc = "retrieve_reality"    -> fetch_reality(state)
      [] pc = "adversary_critique"  -> adversary_critique(state, ObservedOutcome).upd
      [] pc = "proponent_revise"    -> proponent_revise(state, ObservedOutcome).upd
      [] pc = "human_judge"         -> human_judge(state, ObservedOutcome).upd

\* build_assume_break_graph: the edge the compiled graph follows out of the
\* node at pc, once the node's update is merged
GraphEdge ==
    CASE pc = "extract_assumptions" -> "retrieve_reality"
      [] pc = "retrieve_reality"    -> "adversary_critique"
      [] pc = "adversary_critique"  -> RouteTarget(should_continue(state'))
      [] pc = "proponent_revise"    -> "human_judge"
      [] pc = "human_judge"         -> RouteTarget(route_after_judge(state'))

GraphNodes ==
    {"extract_assumptions", "retrieve_reality", "adversary_critique",
     "proponent_revise", "human_judge"}

\* C29: MockAssumeBreakGraph simulates the compiled graph. Every step of the
\* mock, from any state of a run and under any oracle outcome, is the step
\* the compiled graph takes from that state under that outcome: the same node
\* runs, the state after it is the graph's reducer merge of the node's
\* update, and the node that runs next is the one the graph's edges lead to
\* (the bounded loop neither stops early nor runs on). The two start from the
\* same state, so they execute the same steps and end in the same state.
C29_MockSimulatesGraph ==
    /\ [](engine = "mock" /\ pc = "extract_assumptions"
             => state = initial_state(state.business_plan, state.max_revisions))
    /\ [][(engine = "mock" /\ pc \in GraphNodes)
             => /\ node' = pc
                /\ state' = ReducerMerge(state, NodeUpdate)
                /\ pc' = Goto("langgraph", GraphEdge, steps', state.max_revisions)]_vars

\* a run of the mock that went three times round the loop, with a defense,
\* and ended at the judge
C29_Witness ==
    /\ engine = "mock"
    /\ pc = "done"
    /\ node = "human_judge"
    /\ iter = 2
    /\ Len(state.critique_history) = 3
    /\ Len(state.defense_history) >= 1
    /\ state.plan_status = "BROKEN"

--------------------------------------------------------------------------
(* The Extract step *)

\* the plan holds no keyword of the rule-based extractor
MatchesNoRule(plan) ==
    \A i \in 1..Len(ExtractorRules) : ExtractorRules[i].words \cap PlanWords(plan) = {}

\* C30: the Extract step, under either strategy and for every document,
\* leaves plan_status = UNDER_REVIEW and a non-empty assumption_tree; the
\* primary result is used only if the reply held at least one well-formed
\* assumption line (and then holds exactly those lines), and the fallback
\* yields the two generic assumptions when the document matches no keyword.
C30_ExtractAlwaysYieldsAssumptions ==
    (InRun /\ node = "extract_assumptions")
       => /\ state.plan_status = "UNDER_REVIEW"
          /\ state.assumption_tree # <<>>
          /\ strategy \in {"primary", "fallback"}
          /\ strategy = "primary"
                => /\ oracle = "reply"
                   /\ \E i \in 1..Len(reply) : IsAssumptionLine(reply[i])
                   /\ state.assumption_tree = SelectSeq(reply, IsAssumptionLine)
          /\ (strategy = "fallback" /\ MatchesNoRule(state.business_plan))
                => /\ Len(state.assumption_tree) = 2
                   /\ state.assumption_tree = GenericAssumptions

\* "A small shop." matches no keyword; the reply held no assumption line, and
\* the fallback gave the two generic assumptions
C30_Witness ==
    /\ InRun
    /\ node = "extract_assumptions"
    /\ state.business_plan = "small shop"
    /\ MatchesNoRule("small shop")
    /\ oracle = "reply"
    /\ reply = <<JunkLine>>
    /\ strategy = "fallback"
    /\ Len(state.assumption_tree) = 2
    /\ state.plan_status = "UNDER_REVIEW"

--------------------------------------------------------------------------
(* awaiting_human *)

\* C31: awaiting_human is true only if plan_status is BROKEN, in every state
\* of a run and after every direct call of a node; and it becomes true only
\* in a step that leaves plan_status BROKEN.
C31_AwaitingHumanOnlyWhenBroken ==
    /\ [](Get(state, "awaiting_human", FALSE)
             => Get(state, "plan_status", "DRAFT") = "BROKEN")
    /\ [][(~Get(state, "awaiting_human", FALSE) /\ Get(state', "awaiting_human", FALSE))
             => /\ node' = "human_judge"
                /\ Get(state', "plan_status", "DRAFT") = "BROKEN"]_vars

\* the judge of a run returned the LLM's BROKEN verdict and asked for a human
C31_Witness ==
    /\ InRun
    /\ node = "human_judge"
    /\ strategy = "primary"
    /\ state.awaiting_human
    /\ state.plan_status = "BROKEN"
    /\ state.revision_count < state.max_revisions

--------------------------------------------------------------------------
(* What each step may write *)

\* the keys of the state a node's step may change
OwnFields(nodename) ==
    CASE nodename = "extract_assumptions" -> {"assumption_tree", "plan_status"}
      [] nodename = "retrieve_reality"    -> {"reality_context", "reality_citations"}
      [] nodename = "adversary_critique"  -> {"critique_history", "critique_severity",
                                              "plan_status"}
      [] nodename = "proponent_revise"    -> {"defense_history"}
      [] nodename = "human_judge"         -> {"plan_status", "awaiting_human",
                                              "human_override", "revision_count"}
      [] OTHER                            -> {}

\* C32: in a run each step changes only its own fields: Extract only
\* assumption_tree and plan_status, Retrieve only reality_context and
\* reality_citations, Critique only critique_history, critique_severity and
\* plan_status, Defend only defense_history, Judge only plan_status,
\* awaiting_human, human_override and revision_count, and no other step
\* changes anything. So the assumptions and the facts stay as steps 1 and 2
\* left them, and revision_count changes only in a Judge step and only by +1.
C32_StepsWriteOwnFields ==
    [][InRun
         => /\ DOMAIN state' = DOMAIN state
            /\ \A k \in DOMAIN state \ OwnFields(pc) : state'[k] = state[k]
            /\ pc \notin {"extract_assumptions", "start", "fault"}
                  => state'.assumption_tree = state.assumption_tree
            /\ pc \notin {"retrieve_reality", "start", "fault"}
                  => /\ state'.reality_context = state.reality_context
                     /\ state'.reality_citations = state.reality_citations
            /\ state'.revision_count \in {state.revision_count, state.revision_count + 1}
            /\ state'.revision_count # state.revision_count => pc = "human_judge"]_vars

\* a Judge step of a run counted a revision; the run had made its defense
\* and kept the assumptions and facts of steps 1 and 2
C32_Witness ==
    /\ InRun
    /\ node = "human_judge"
    /\ state.revision_count = 2
    /\ state.plan_status = "NEEDS_REVISION"
    /\ Len(state.defense_history) >= 1
    /\ state.assumption_tree # <<>>
    /\ ~state.reality_context.sentinel

--------------------------------------------------------------------------
(* The fallback defense *)

\* C33: when the Defend step of a run used the fallback strategy, the defense
\* round it appended holds exactly one defense per critique of the latest
\* critique round, in the same order, each with response_to equal to the
\* fracture of its critique; the round is not empty.
C33_FallbackDefenseAnswersEachCritique ==
    (InRun /\ node = "proponent_revise" /\ strategy = "fallback")
       => LET critiques == Latest(state.critique_history).critiques
              defenses == state.defense_history[Len(state.defense_history)].defenses
          IN  /\ defenses # <<>>
              /\ Len(defenses) = Len(critiques)
              /\ \A i \in 1..Len(critiques) :
                   defenses[i].response_to = critiques[i].fracture

\* the fallback defended a round of two critiques, one MAJOR and one MINOR,
\* that the LLM adversary had made
C33_Witness ==
    /\ InRun
    /\ node = "proponent_revise"
    /\ strategy = "fallback"
    /\ Len(Latest(state.critique_history).critiques) = 2
    /\ Latest(state.critique_history).critiques[1].verdict = "MAJOR"
    /\ Latest(state.critique_history).critiques[2].verdict = "MINOR"
    /\ Len(state.defense_history[Len(state.defense_history)].defenses) = 2
    /\ state.defense_history[Len(state.defense_history)].defenses[2].response_to
          = "llm fracture 2"

--------------------------------------------------------------------------
(* The tiers of a keyword *)

\* the tier of a keyword against a token list: 3 for an exact token match,
\* else 2 for a whole-sequence similarity of at least 0.65, else 1 for a
\* single token of length 4 or more with similarity of at least 0.75 to a
\* keyword of length 4 or more, else 0
Tier(keyword, plan_tokens) ==
    IF \E i \in 1..Len(plan_tokens) : plan_tokens[i] = keyword THEN 3
    ELSE IF ratio(keyword, plan_text_joined(plan_tokens)) >= 6500 THEN 2
    ELSE IF /\ keyword \notin ShorterThan4
            /\ \E i \in 1..Len(plan_tokens) :
                  /\ plan_tokens[i] \notin ShorterThan4
                  /\ ratio(keyword, plan_tokens[i]) >= 7500
         THEN 1
    ELSE 0

\* what a tier contributes, in hundredths: 3.0, 1.5, 0.75 or 0
TierWeight(tier) ==
    CASE tier = 3 -> 300
      [] tier = 2 -> 150
      [] tier = 1 -> 75
      [] tier = 0 -> 0

\* the contributions of the first n keywords, each by its one tier
RECURSIVE TierSum(_, _, _)
TierSum(keywords, plan_tokens, n) ==
    IF n = 0 THEN 0
    ELSE TierSum(keywords, plan_tokens, n - 1) + TierWeight(Tier(keywords[n], plan_tokens))

\* C34: in _score_fact each keyword contributes exactly one of 3.0 (exact
\* token), 1.5 (whole-sequence similarity), 0.75 (single-token similarity) or
\* 0, at most once; the score is the sum of these contributions, plus 2.0 if
\* the category is detected, and is at most 3.0 * |keywords| + 2.0.
C34_OneTierPerKeyword ==
    retrieval.op = "_score_fact"
       => LET fact == retrieval.fact
              n == Len(fact.keywords)
              boost == IF fact.category \in retrieval.detected_categories THEN 200 ELSE 0
          IN  /\ retrieval.score = TierSum(fact.keywords, retrieval.plan_tokens, n) + boost
              /\ retrieval.score <= 300 * n + 200

\* the fact on rural roads against the copper mining plan, no category
\* detected: "western" is a token (3.0), "northern" is similar to the token
\* "north" (0.75), the other seven keywords give nothing
C34_Witness ==
    /\ retrieval.op = "_score_fact"
    /\ retrieval.fact = ZAMBIAN_REALITY_DATABASE[16]
    /\ retrieval.plan_tokens = _tokenize("copper mining")
    /\ retrieval.detected_categories = {}
    /\ Tier("western", retrieval.plan_tokens) = 3
    /\ Tier("northern", retrieval.plan_tokens) = 1
    /\ retrieval.score = 375

--------------------------------------------------------------------------
(* Severity after a critique *)

\* C35: in a run, once a Critique step has run, critique_severity is not
\* NONE and every critique round holds at least one critique; so neither the
\* routing after a critique nor the judge ever sees NONE.
C35_SeverityNeverNoneAfterCritique ==
    /\ (InRun /\ state.critique_history # <<>>)
          => /\ state.critique_severity # "NONE"
             /\ \A r \in 1..Len(state.critique_history) :
                   state.critique_history[r].critiques # <<>>
    /\ (InRun /\ pc \in {"proponent_revise", "human_judge", "done", "returned"}
              /\ node # "fall back to mock")
          => state.critique_severity # "NONE"
    /\ (InRun /\ node = "extract_assumptions") => state.assumption_tree # <<>>

\* the least severe round there is: the fallback adversary found only MINOR
\* fractures in the two assumptions extracted from the copper mining plan
C35_Witness ==
    /\ InRun
    /\ node = "adversary_critique"
    /\ strategy = "fallback"
    /\ state.business_plan = "copper mining"
    /\ Len(Latest(state.critique_history).critiques) = 2
    /\ state.critique_severity = "MINOR"

--------------------------------------------------------------------------
(* Rounds at termination *)

\* C36: when a run has terminated, the number of critique rounds is
\* revision_count + 1, at most max_revisions + 1, and the number of defense
\* rounds is at most the number of critique rounds.
C36_RoundsAtTermination ==
    (InRun /\ pc \in {"done", "returned"})
       => /\ Len(state.critique_history) = state.revision_count + 1
          /\ Len(state.critique_history) <= state.max_revisions + 1
          /\ Len(state.defense_history) <= Len(state.critique_history)
          /\ pc = "returned"
                => /\ Len(result.critiques) = result.revision_count + 1
                   /\ Len(result.defenses) <= Len(result.critiques)

\* a run returned after three critique rounds, two of them defended, with
\* two revisions counted
C36_Witness ==
    /\ InRun
    /\ pc = "returned"
    /\ state.max_revisions = 2
    /\ state.revision_count = 2
    /\ Len(state.critique_history) = 3
    /\ Len(state.defense_history) = 2

--------------------------------------------------------------------------
(* max_revisions = 0 *)

\* C37: a run with max_revisions = 0 ends with plan_status BROKEN after a
\* single critique round: it stops on a FATAL critique or at the cap gate of
\* its first Judge step, which never calls the oracle; it is never
\* VALIDATED, even when all critiques are MINOR.
C37_ZeroRevisionsAlwaysBroken ==
    (InRun /\ state.max_revisions = 0)
       => /\ state.plan_status # "VALIDATED"
          /\ state.revision_count = 0
          /\ node = "human_judge"
                => /\ strategy = "gate"
                   /\ oracle = "not called"
                   /\ state.plan_status = "BROKEN"
          /\ pc \in {"done", "returned"}
                => /\ state.plan_status = "BROKEN"
                   /\ Len(state.critique_history) = 1
                   /\ \/ state.critique_severity = "FATAL"
                      \/ node \in {"human_judge", "return"}
          /\ pc = "returned" => result.plan_status = "BROKEN"

\* the first Judge step of a run with max_revisions = 0 met a round of MINOR
\* critiques only, with an API key at hand, and ended the run BROKEN at the
\* gate
C37_Witness ==
    /\ InRun
    /\ api_key
    /\ state.max_revisions = 0
    /\ node = "human_judge"
    /\ state.critique_severity = "MINOR"
    /\ OnlyMinor(Latest(state.critique_history))
    /\ strategy = "gate"
    /\ state.plan_status = "BROKEN"
    /\ pc = "done"

--------------------------------------------------------------------------
(* runs on the fallbacks alone *)

\* a step of a run in which no capability answered from the oracle: the
\* call found no key or failed, and the node took its rule-based branch
FallbackNext == Next /\ strategy' # "primary"

\* The runs whose every capability uses its fallback. The run is sequential
\* code, so a step that can be taken is taken; the retrieval step is enabled
\* exactly at pc = "retrieve_reality" and leaves it, so its weak fairness
\* is that the run does not stay there.
FallbackSpec ==
    /\ Init /\ [][FallbackNext]_vars
    /\ WF_vars(BuildAndInvoke)
    /\ WF_vars(FallBackToMock)
    /\ WF_vars(ExtractStep /\ strategy' # "primary")
    /\ []<>(pc # "retrieve_reality")
    /\ WF_vars(CritiqueStep /\ strategy' # "primary")
    /\ WF_vars(DefendStep /\ strategy' # "primary")
    /\ WF_vars(JudgeStep /\ strategy' # "primary")
    /\ WF_vars(Return)

\* the maximum severity of the first critique round
Round1Severity == MaxSeverityFrom("NONE", state.critique_history[1].critiques, 1)

C38_RoundsRepeat ==
    (InRun /\ state.critique_history # <<>>)
       => /\ \A r \in 1..Len(state.critique_history) :
                /\ state.critique_history[r].critiques = state.critique_history[1].critiques
                /\ state.critique_history[r].round = r
          /\ state.critique_severity = Round1Severity

C38_OutcomeFixed ==
    (InRun /\ state.critique_history # <<>>)
       => /\ (pc \in {"done", "returned"} /\ Round1Severity = "FATAL")
                => /\ state.plan_status = "BROKEN"
                   /\ Len(state.critique_history) = 1
                   /\ state.revision_count = 0
          /\ (pc \in {"done", "returned"} /\ Round1Severity = "MAJOR")
                => /\ state.plan_status = "BROKEN"
                   /\ state.revision_count = state.max_revisions
                   /\ node \in {"human_judge", "return"}
          /\ state.plan_status = "VALIDATED"
                => /\ Round1Severity = "MINOR"
                   /\ state.revision_count = 0
                   /\ Len(state.critique_history) = 1
          /\ (pc = "returned" /\ result.plan_status = "VALIDATED")
                => result.revision_count = 0

\* a NEEDS_REVISION verdict counts a revision; a state that was ever
\* NEEDS_REVISION is not followed by VALIDATED
C38_NeverValidatedAfterRevision ==
    (InRun /\ state.plan_status = "NEEDS_REVISION")
       => /\ state.revision_count >= 1
          /\ [](state.plan_status # "VALIDATED")

\* C38: in a run where every capability uses its fallback, every critique
\* round has the critiques and the maximum severity of round 1, numbered by
\* its round, and round 1 fixes the outcome: FATAL ends BROKEN after one
\* round with revision_count 0, MAJOR ends BROKEN at the cap with
\* revision_count = max_revisions, and VALIDATED is reached only from a MINOR
\* round 1, never after a NEEDS_REVISION verdict; the run does end.
C38_FallbackRunFixedByRound1 ==
    /\ [](C38_RoundsRepeat /\ C38_OutcomeFixed)
    /\ []C38_NeverValidatedAfterRevision
    /\ <>(pc = "returned" /\ state.plan_status \in {"BROKEN", "VALIDATED"})

\* a run on the fallbacks, its calls failing with a key at hand, whose three
\* MAJOR rounds repeat round 1 and which ended BROKEN at the cap
C38_Witness ==
    /\ InRun
    /\ api_key
    /\ pc = "returned"
    /\ state.max_revisions = 2
    /\ Len(state.critique_history) = 3
    /\ Round1Severity = "MAJOR"
    /\ state.critique_history[3].critiques = state.critique_history[1].critiques
    /\ state.revision_count = 2
    /\ state.plan_status = "BROKEN"

--------------------------------------------------------------------------
(* the recursion limit *)

\* C39: the compiled graph stays below its recursion limit: for every
\* max_revisions >= 0 and all capability outcomes a run executes at most
\* 3 * max_revisions + 5 nodes (extract, retrieve, then critique, defend and
\* judge in each of at most max_revisions + 1 iterations), fewer than
\* recursion_limit = max_revisions * 5 + 20, so graph.invoke never raises
\* for the limit.
C39_StepsBelowRecursionLimit ==
    engine = "langgraph"
       => /\ steps <= 3 * state.max_revisions + 5
          /\ 3 * state.max_revisions + 5 < recursion_limit(state.max_revisions)
          /\ steps <= 2 + 3 * Len(state.critique_history)
          /\ Len(state.critique_history) <= state.max_revisions + 1
          /\ pc # "fault"

\* the compiled graph ended a run with max_revisions = 2 at the brake of its
\* third iteration, having executed 3 * 2 + 5 nodes
C39_Witness ==
    /\ engine = "langgraph"
    /\ pc = "returned"
    /\ state.max_revisions = 2
    /\ steps = 11
    /\ Len(state.defense_history) = 3
    /\ state.plan_status = "BROKEN"

====
